---- MODULE Spec2Model ----
(***************************************************************************)
(* The prover node's sync engine and epoch finalizer                       *)
(* (crates/node_types/prover/src/prover/mod.rs).                           *)
(*                                                                         *)
(* The sync task is modelled as a program counter `pc` walking through     *)
(* main_loop, sync_loop, process_da_height, process_epoch and              *)
(* finalize_new_epoch.  Every database write is a step of its own, so a    *)
(* state of the model is what a concurrent reader of the database can see. *)
(* The DA layer and the height subscription are the environment: what a    *)
(* read returns and which height arrives next are chosen from small sets.  *)
(***************************************************************************)
EXTENDS Integers, Sequences, FiniteSets, TLC

\* ------------------------------------------------------------------ bounds
\* DA heights 1..MaxHeight are delivered and read.
MaxHeight == 3
\* The operations read from DA and not yet applied number at most this many.
MaxBuffered == 2
\* Finalized epochs found on DA carry a height in 0..MaxEpochHeight.
MaxEpochHeight == 1
\* Finalized epochs found on DA carry commitments of trees whose hashchains
\* have at most this many entries.
MaxChain == 1

\* ------------------------------------------------------------- data model
Heights == 1..MaxHeight

Ids == {"alice"}

OpKinds == {"CreateAccount", "AddKey"}

Operation == [kind : OpKinds, id : Ids]

\* Option<T>: None is the empty sequence, Some(x) the one-element sequence.
None == <<>>

Some(x) == <<x>>

\* The blobs of at most n operations get_operations can return for one height.
OpsChoices(n) == UNION {[1..k -> Operation] : k \in 0..n}

\* The state tree: for every id the length of its hashchain (0: no hashchain).
EmptyTree == [i \in Ids |-> 0]

\* tree.get_commitment(): the root digest, an injective image of the tree.
Commitment(t) == 1 + t["alice"]

\* The digests a finalized epoch found on DA may carry.
Digests == {Commitment(t) : t \in [Ids -> 0..MaxChain]}

\* The finalized epochs get_finalized_epoch can return (none of the sync
\* engine's checks reads the proof or the signature of a found epoch).
DAEpochs ==
    [height : 0..MaxEpochHeight, prev_commitment : Digests,
     current_commitment : Digests, proof : {"zkproof"}, signature : {Some("sig")}]

EpochChoices == {None} \cup {Some(e) : e \in DAEpochs}

\* tree.process_operation(op): CreateAccount inserts a new hashchain and fails
\* when the id exists; AddKey updates an existing hashchain and fails when the
\* id is unknown.  On failure the tree is unchanged.
TreeProcessOperation(t, op) ==
    IF op.kind = "CreateAccount"
    THEN IF t[op.id] = 0
         THEN [ok |-> TRUE, tree |-> [t EXCEPT ![op.id] = 1],
               proof |-> [kind |-> "Insert", op |-> op]]
         ELSE [ok |-> FALSE, tree |-> t, proof |-> [kind |-> "None", op |-> op]]
    ELSE IF t[op.id] > 0
         THEN [ok |-> TRUE, tree |-> [t EXCEPT ![op.id] = @ + 1],
               proof |-> [kind |-> "Update", op |-> op]]
         ELSE [ok |-> FALSE, tree |-> t, proof |-> [kind |-> "None", op |-> op]]

RECURSIVE ExecuteBlockAbortOnError(_, _)
ExecuteBlockAbortOnError(t, ops) ==
    IF ops = <<>>
    THEN [tree |-> t, proofs |-> <<>>]
    ELSE LET r == TreeProcessOperation(t, Head(ops))
             rest == ExecuteBlockAbortOnError(r.tree, Tail(ops))
         IN  IF r.ok
             THEN [tree |-> rest.tree, proofs |-> <<r.proof>> \o rest.proofs]
             ELSE [tree |-> t, proofs |-> <<>>]

\* Prover::execute_block: apply the operations in order, skip the ones that
\* fail, collect the proofs of the ones that succeed.
RECURSIVE ExecuteBlock(_, _)
ExecuteBlock(t, ops) ==
    IF ops = <<>>
    THEN [tree |-> t, proofs |-> <<>>]
    ELSE LET r == TreeProcessOperation(t, Head(ops))
             rest == ExecuteBlock(r.tree, Tail(ops))
         IN  IF r.ok
             THEN [tree |-> rest.tree, proofs |-> <<r.proof>> \o rest.proofs]
             ELSE rest

\* db.set_commitment(e, c) on the persisted epoch -> commitment map.
SetCommitment(f, e, c) ==
    [x \in (DOMAIN f) \cup {e} |-> IF x = e THEN c ELSE f[x]]

NoCommitments == [x \in {} |-> 0]

\* FinalizedEpoch::insert_signature(&key): attach the prover's signature.
InsertSignature(e) == [e EXCEPT !.signature = Some("sig")]

\* prove_epoch with the two commitments in each other's place.
NewFinalizedEpochSwapped(h, prev, new, prfs) ==
    InsertSignature(
        [height |-> h, prev_commitment |-> new, current_commitment |-> prev,
         proof |-> [prev_root |-> prev, new_root |-> new, proofs |-> prfs],
         signature |-> None])

\* Prover::prove_epoch, the record it returns: the epoch built from its
\* arguments, the zk proof over Batch{prev_root, new_root, proofs}, signed.
NewFinalizedEpoch(h, prev, new, prfs) ==
    InsertSignature(
        [height |-> h, prev_commitment |-> prev, current_commitment |-> new,
         proof |-> [prev_root |-> prev, new_root |-> new, proofs |-> prfs],
         signature |-> None])

\* The guard with `<=` for `<`: the epoch at the current height is skipped too.
EpochAlreadyProcessedInclusive(ep, cur) == ep.height <= cur

\* The early return left out.
EpochNeverIgnored(ep, cur) == FALSE

\* process_epoch: `if epoch.height < current_epoch { return Ok(()) }`.
EpochAlreadyProcessed(ep, cur) == ep.height < cur

\* The height check with `<` for `!=`: an epoch from the future passes.
HeightMismatchOnlyBelow(ep, cur) == ep.height < cur

\* process_epoch: `if epoch.height != current_epoch { return Err(..) }`.
HeightMismatch(ep, cur) == ep.height # cur

\* process_epoch: `if epoch.prev_commitment != prev_commitment { return Err(..) }`.
PrevCommitmentMismatch(ep, prev) == ep.prev_commitment # prev

\* The resulting-commitment check left out.
NewCommitmentUnchecked(ep, new) == FALSE

\* process_epoch: `if epoch.current_commitment != new_commitment { return Err(..) }`.
NewCommitmentMismatch(ep, new) == ep.current_commitment # new

\* sync_loop never storing the commitment of epoch 0.
InitialCommitmentNever(saved_epoch) == FALSE

\* sync_loop: `if saved_epoch == 0 { .. set_commitment(&0, &initial_commitment) }`.
InitialCommitmentNeeded(saved_epoch) == saved_epoch = 0

\* The finalizer guard that never lets a live height finalize.
ShouldFinalizeHistoricalOnly(live, buf, prover) == ~live /\ buf # <<>> /\ prover

\* The finalizer guard without `is_real_time`.
ShouldFinalizeAnyTime(live, buf, prover) == buf # <<>> /\ prover

\* process_da_height: `if is_real_time && !buffered_operations.is_empty()
\* && self.cfg.prover`.
ShouldFinalize(live, buf, prover) == live /\ buf # <<>> /\ prover

\* The historical loop with `<` for `<=`: end_height is left out.
InHistoricalExclusive(cur, end) == cur < end

\* sync_loop: `while current_height <= end_height`.
InHistorical(cur, end) == cur <= end

\* The live check with `>=` for `==`: a gap is accepted.
HeightAtLeastCurrent(h, cur) == h >= cur

\* sync_loop: the live loop goes on only when `height == current_height`.
HeightIsSequential(h, cur) == h = cur

\* process_epoch bumping the epoch before it writes the commitment.
DrainWithCurrentHeight(buf, ops) == buf \o ops

\* buffered_operations.drain(..).collect(): the batch is the buffer, which
\* the operations read at this height have not joined yet.
Drain(buf, ops) == buf

ProcessEpochPersistEpochFirst == <<"set_epoch", "set_commitment">>

\* process_epoch: the database writes after the checks, in statement order.
ProcessEpochPersist == <<"set_commitment", "set_epoch">>

\* finalize_new_epoch persisting before it submits.
FinalizeTailPersistFirst == <<"set_commitment", "set_epoch", "submit">>

\* finalize_new_epoch: the calls after prove_epoch, in statement order.
FinalizeTail == <<"submit", "set_commitment", "set_epoch">>

\* ------------------------------------------------------------------ state
VARIABLES
    cfg,                 \* Config: prover, start_height
    db_epoch,            \* Database: the epoch counter
    db_commitments,      \* Database: epoch -> commitment
    db_last_synced,      \* Database: Option<last synced height>
    tree,                \* the state tree
    da_epochs,           \* the finalized epochs this node submitted to DA
    pc,                  \* position of the sync task
    err,                 \* why the sync task returned Err ("none" while it runs)
    start_height,        \* sync_loop argument
    end_height,          \* sync_loop argument
    current_height,      \* sync_loop local
    buffered_operations, \* sync_loop local
    height,              \* process_da_height argument
    is_real_time,        \* process_da_height argument
    current_epoch,       \* process_da_height local
    operations,          \* process_da_height local
    epoch_result,        \* process_da_height local
    epoch_height,        \* finalize_new_epoch argument
    all_ops,             \* finalize_new_epoch argument
    prev_commitment,     \* finalize_new_epoch local
    proofs,              \* finalize_new_epoch local
    new_commitment,      \* process_epoch / finalize_new_epoch local
    new_epoch,           \* process_epoch current_epoch+1 / new_epoch_height
    finalized_epoch,     \* finalize_new_epoch local, Option
    step,                \* position in ProcessEpochPersist / FinalizeTail
    received,            \* history: the heights received in the live loop
    processed,           \* history: the calls of process_da_height
    completed,           \* history: Option<the last height whose iteration ended>
    pre,                 \* history: database, tree, buffer when the call began
    fin_tree0            \* history: the tree when finalize_new_epoch was called

vars ==
    <<cfg, db_epoch, db_commitments, db_last_synced, tree, da_epochs, pc, err,
      start_height, end_height, current_height, buffered_operations, height,
      is_real_time, current_epoch, operations, epoch_result, epoch_height,
      all_ops, prev_commitment, proofs, new_commitment, new_epoch,
      finalized_epoch, step, received, processed, completed, pre, fin_tree0>>

dbVars == <<db_epoch, db_commitments, db_last_synced>>

loopVars == <<start_height, end_height, current_height>>

callVars == <<height, is_real_time, current_epoch, operations, epoch_result>>

finVars == <<epoch_height, all_ops, prev_commitment, proofs, finalized_epoch>>

histVars == <<received, processed, completed, pre, fin_tree0>>

\* The rest of the node: the pending-operation buffer behind its write lock,
\* the batch poster, the callers of validate_and_queue_update and Prover::run.
VARIABLES
    pending_operations,  \* Prover.pending_operations
    pending_lock,        \* holder of pending_operations' write lock, or "free"
    run_pc,              \* position of Prover::run
    run_result,          \* what run returned ("none" while it runs)
    tasks,               \* the JoinSet of run: task -> status
    batcher_pc,          \* position of post_batch_loop
    batcher_height,      \* post_batch_loop local height
    batch,               \* post_batch_loop local pending_operations
    caller,              \* per caller: position and locals of validate_and_queue_update
    returned,            \* history: what validate_and_queue_update returned last
    pushed,              \* history: the accepted operations, in push order
    submits              \* history: the calls of da.submit_operations

nodeVars ==
    <<pending_operations, pending_lock, run_pc, run_result, tasks, batcher_pc,
      batcher_height, batch, caller, returned, pushed, submits>>

\* A recorded DA transcript replayed twice, and the input and result of a
\* verifying-key decoding.
VARIABLES
    buffered_from,       \* history: per buffered operation, the height it was read at
    transcript,          \* the DA: height -> operations and finalized epoch
    phase,               \* 1: the uninterrupted replay, 2: the replay with restarts
    reference,           \* Option<what the uninterrupted replay persisted>
    restarts,            \* how often the node was stopped and started again
    key_input,           \* the String given to VerifyingKey::try_from
    key_result           \* Option<the Result it returned>

replayVars == <<transcript, phase, reference, restarts>>

keyVars == <<key_input, key_result>>

\* The RwLock around the state tree, and execute_block's position in its
\* batch.
VARIABLES
    tree_lock,           \* Prover.tree: the holder of the write guard, the holders of read guards
    exec_rest,           \* execute_block: the operations its loop has not reached yet
    read_during          \* history: the positions of the sync task at which a read guard was taken

lockVars == <<tree_lock, exec_rest, read_during>>

Snapshot == [epoch |-> db_epoch, commitments |-> db_commitments,
             tree |-> tree, buf |-> buffered_operations,
             submitted |-> Len(da_epochs)]

\* Config::default: start_height: 1.
DefaultStartHeight == 1

\* The callers of validate_and_queue_update (requests served concurrently).
Callers == {"c1", "c2"}

\* The tasks Prover::run may spawn.
Tasks == {"sync", "batcher", "webserver"}

\* A caller that is not inside validate_and_queue_update.
IdleCaller == [pc |-> "idle"]

\* The node outside the sync task, before Prover::run has started.
NodeIdle ==
    /\ pending_operations = <<>>
    /\ pending_lock = "free"
    /\ run_pc = "start"
    /\ run_result = "none"
    /\ tasks = [t \in Tasks |-> "absent"]
    /\ batcher_pc = "off"
    /\ batcher_height = 0
    /\ batch = <<>>
    /\ caller = [c \in Callers |-> IdleCaller]
    /\ returned = "none"
    /\ pushed = <<>>
    /\ submits = <<>>

\* No transcript is replayed.
ReplayIdle ==
    /\ transcript = <<>>
    /\ phase = 0
    /\ reference = None
    /\ restarts = 0

\* No key is decoded.
KeysIdle ==
    /\ key_input = <<>>
    /\ key_result = None

\* Nobody holds a guard of the tree lock.
LockIdle ==
    /\ tree_lock = [writer |-> "free", readers |-> {}]
    /\ exec_rest = <<>>
    /\ read_during = {}

\* The sync task before main_loop: its locals and the history variables.
InitSyncLocals ==
    /\ pc = "main_loop"
    /\ err = "none"
    /\ start_height = 0
    /\ end_height = 0
    /\ current_height = 0
    /\ buffered_operations = <<>>
    /\ height = 0
    /\ is_real_time = FALSE
    /\ current_epoch = 0
    /\ operations = <<>>
    /\ epoch_result = None
    /\ epoch_height = 0
    /\ all_ops = <<>>
    /\ prev_commitment = 0
    /\ proofs = <<>>
    /\ new_commitment = 0
    /\ new_epoch = 0
    /\ finalized_epoch = None
    /\ step = 0
    /\ received = <<>>
    /\ processed = <<>>
    /\ completed = None
    /\ pre = [epoch |-> 0, commitments |-> NoCommitments, tree |-> EmptyTree,
              buf |-> <<>>, submitted |-> 0]
    /\ fin_tree0 = EmptyTree
    /\ buffered_from = <<>>

\* A fresh database (Prover::new has stored epoch 0) under any configured start
\* height, or the database an earlier run that found no epoch leaves behind
\* (main_loop then never reads the configured start height: it is the default).
Init ==
    /\ cfg \in [prover : BOOLEAN, start_height : Heights]
    /\ db_epoch = 0
    /\ db_last_synced \in {None} \cup {Some(h) : h \in Heights}
    /\ db_last_synced # None => cfg.start_height = DefaultStartHeight
    /\ db_commitments = IF db_last_synced = None
                        THEN NoCommitments
                        ELSE SetCommitment(NoCommitments, 0, Commitment(EmptyTree))
    /\ tree = EmptyTree
    /\ da_epochs = <<>>
    /\ InitSyncLocals
    /\ NodeIdle
    /\ ReplayIdle
    /\ KeysIdle
    /\ LockIdle

\* The sync task returns Err(e): its locals are dropped and the orchestrator
\* ends the process.
Fatal(e) ==
    /\ pc' = "fatal"
    /\ err' = e
    /\ buffered_operations' = <<>>
    /\ height' = 0
    /\ is_real_time' = FALSE
    /\ current_epoch' = 0
    /\ operations' = <<>>
    /\ epoch_result' = None
    /\ epoch_height' = 0
    /\ all_ops' = <<>>
    /\ prev_commitment' = 0
    /\ proofs' = <<>>
    /\ finalized_epoch' = None
    /\ new_commitment' = 0
    /\ new_epoch' = 0
    /\ step' = 0

\* What a step that is not a return leaves alone, by group.
localVars ==
    <<buffered_operations, callVars, finVars, new_commitment, new_epoch, step>>

\* ------------------------------------------------------------ sync engine
\* Prover::main_loop: the first height of the subscription is the end of the
\* historical sync; the start is the persisted last synced height, or
\* cfg.start_height, which is then persisted.  DA heights never decrease: a
\* persisted height is at most one above the first height of this run.
MainLoop ==
    /\ pc = "main_loop"
    /\ \/ \E h \in Heights :
            /\ end_height' = h
            /\ \/ /\ db_last_synced # None
                  /\ db_last_synced[1] <= h + 1
                  /\ start_height' = db_last_synced[1]
                  /\ pc' = "sync_loop"
                  /\ UNCHANGED <<db_last_synced, err, localVars>>
               \/ /\ db_last_synced = None
                  /\ db_last_synced' = Some(cfg.start_height)
                  /\ start_height' = cfg.start_height
                  /\ pc' = "sync_loop"
                  /\ UNCHANGED <<err, localVars>>
               \/ /\ db_last_synced = None
                  /\ Fatal("db")
                  /\ UNCHANGED <<db_last_synced, start_height>>
       \/ /\ Fatal("recv")
          /\ UNCHANGED <<db_last_synced, start_height, end_height>>
    /\ UNCHANGED <<cfg, db_epoch, db_commitments, tree, da_epochs,
                   current_height, histVars>>

\* Prover::sync_loop up to the historical loop: with epoch 0 the tree's
\* commitment is persisted as commitment(0).
SyncLoopStart ==
    /\ pc = "sync_loop"
    /\ \/ /\ InitialCommitmentNeeded(db_epoch)
          /\ db_commitments' = SetCommitment(db_commitments, 0, Commitment(tree))
          /\ current_height' = start_height
          /\ pc' = "historical"
          /\ UNCHANGED <<err, localVars>>
       \/ /\ ~InitialCommitmentNeeded(db_epoch)
          /\ current_height' = start_height
          /\ pc' = "historical"
          /\ UNCHANGED <<db_commitments, err, localVars>>
       \/ /\ Fatal("db")
          /\ UNCHANGED <<db_commitments, current_height>>
    /\ UNCHANGED <<cfg, db_epoch, db_last_synced, tree, da_epochs, start_height,
                   end_height, histVars>>

\* sync_loop, the head of the historical loop: call process_da_height for
\* current_height with is_real_time = false, or leave the loop.
HistoricalLoop ==
    /\ pc = "historical"
    /\ IF InHistorical(current_height, end_height)
       THEN /\ current_height <= MaxHeight
            /\ height' = current_height
            /\ is_real_time' = FALSE
            /\ processed' = Append(processed, [h |-> current_height, live |-> FALSE])
            /\ pc' = "process_da_height"
       ELSE /\ pc' = "live"
            /\ UNCHANGED <<height, is_real_time, processed>>
    /\ UNCHANGED <<cfg, dbVars, tree, da_epochs, err, loopVars,
                   buffered_operations, current_epoch, operations, epoch_result,
                   finVars, new_commitment, new_epoch, step, received,
                   completed, pre, fin_tree0>>

\* sync_loop, the head of the live loop: receive a height; it must be
\* current_height, otherwise the loop returns an error.
LiveLoop ==
    /\ pc = "live"
    /\ \/ \E h \in Heights :
            /\ received' = Append(received, h)
            /\ IF HeightIsSequential(h, current_height)
               THEN /\ height' = h
                    /\ is_real_time' = TRUE
                    /\ processed' = Append(processed, [h |-> h, live |-> TRUE])
                    /\ pc' = "process_da_height"
                    /\ UNCHANGED <<err, buffered_operations, current_epoch,
                                   operations, epoch_result, finVars,
                                   new_commitment, new_epoch, step>>
               ELSE /\ Fatal("not_sequential")
                    /\ UNCHANGED processed
       \/ /\ Fatal("recv")
          /\ UNCHANGED <<processed, received>>
    /\ UNCHANGED <<cfg, dbVars, tree, da_epochs, loopVars, completed, pre,
                   fin_tree0>>

\* Prover::process_da_height, the reads: the epoch counter, the operations and
\* the finalized epoch of the height.
ProcessDaHeight ==
    /\ pc = "process_da_height"
    /\ \/ \E ops \in OpsChoices(MaxBuffered - Len(buffered_operations)),
               er \in EpochChoices :
            /\ current_epoch' = db_epoch
            /\ operations' = ops
            /\ epoch_result' = er
            /\ pre' = Snapshot
            /\ pc' = IF er # None THEN "process_epoch" ELSE "maybe_finalize"
            /\ UNCHANGED <<err, buffered_operations, height, is_real_time,
                           finVars, new_commitment, new_epoch, step>>
       \/ /\ Fatal("da")
          /\ UNCHANGED pre
    /\ UNCHANGED <<cfg, dbVars, tree, da_epochs, loopVars, received, processed,
                   completed, fin_tree0>>

\* Prover::process_epoch up to its database writes.
ProcessEpoch ==
    /\ pc = "process_epoch"
    /\ LET ep == epoch_result[1]
           cur == db_epoch
           r == ExecuteBlock(tree, Drain(buffered_operations, operations))
       IN  IF EpochAlreadyProcessed(ep, cur)
           THEN /\ pc' = "maybe_finalize"
                /\ UNCHANGED <<err, tree, localVars>>
           ELSE IF cur \notin DOMAIN db_commitments
           THEN /\ Fatal("db")
                /\ UNCHANGED tree
           ELSE IF HeightMismatch(ep, cur)
           THEN /\ Fatal("epoch_height_mismatch")
                /\ UNCHANGED tree
           ELSE IF PrevCommitmentMismatch(ep, db_commitments[cur])
           THEN /\ Fatal("prev_commitment_mismatch")
                /\ UNCHANGED tree
           ELSE /\ tree' = r.tree
                /\ IF NewCommitmentMismatch(ep, Commitment(r.tree))
                   THEN Fatal("new_commitment_mismatch")
                   ELSE /\ buffered_operations' = <<>>
                        /\ new_commitment' = Commitment(r.tree)
                        /\ new_epoch' = cur + 1
                        /\ step' = 1
                        /\ pc' = "pe_persist"
                        /\ UNCHANGED <<err, callVars, finVars>>
    /\ UNCHANGED <<cfg, dbVars, da_epochs, loopVars, histVars>>

\* The step after a write of process_epoch: the next write, or the return.
ProcessEpochAdvance ==
    IF step < Len(ProcessEpochPersist)
    THEN step' = step + 1 /\ UNCHANGED <<pc, new_commitment, new_epoch>>
    ELSE step' = 0 /\ pc' = "maybe_finalize" /\ new_commitment' = 0 /\ new_epoch' = 0

\* process_epoch: self.db.set_commitment(&current_epoch, &new_commitment)?
ProcessEpochSetCommitment ==
    /\ pc = "pe_persist"
    /\ ProcessEpochPersist[step] = "set_commitment"
    /\ \/ /\ db_commitments' = SetCommitment(db_commitments, new_epoch, new_commitment)
          /\ ProcessEpochAdvance
          /\ UNCHANGED <<err, buffered_operations, callVars, finVars>>
       \/ /\ Fatal("db")
          /\ UNCHANGED db_commitments
    /\ UNCHANGED <<cfg, db_epoch, db_last_synced, tree, da_epochs, loopVars,
                   histVars>>

\* process_epoch: self.db.set_epoch(&current_epoch)?
ProcessEpochSetEpoch ==
    /\ pc = "pe_persist"
    /\ ProcessEpochPersist[step] = "set_epoch"
    /\ \/ /\ db_epoch' = new_epoch
          /\ ProcessEpochAdvance
          /\ UNCHANGED <<err, buffered_operations, callVars, finVars>>
       \/ /\ Fatal("db")
          /\ UNCHANGED db_epoch
    /\ UNCHANGED <<cfg, db_commitments, db_last_synced, tree, da_epochs,
                   loopVars, histVars>>

\* process_da_height after the epoch branch: drain the buffer into
\* finalize_new_epoch(current_epoch, all_ops), or go on.
MaybeFinalize ==
    /\ pc = "maybe_finalize"
    /\ IF ShouldFinalize(is_real_time, buffered_operations, cfg.prover)
       THEN /\ all_ops' = Drain(buffered_operations, operations)
            /\ buffered_operations' = <<>>
            /\ epoch_height' = current_epoch
            /\ fin_tree0' = tree
            /\ pc' = "finalize_new_epoch"
       ELSE /\ pc' = "extend"
            /\ UNCHANGED <<all_ops, buffered_operations, epoch_height, fin_tree0>>
    /\ UNCHANGED <<cfg, dbVars, tree, da_epochs, err, loopVars, callVars,
                   prev_commitment, proofs, finalized_epoch, new_commitment,
                   new_epoch, step, received, processed, completed, pre>>

\* ---------------------------------------------------------- epoch finalizer
\* Prover::finalize_new_epoch up to prove_epoch: the commitment before, the
\* batch applied, the commitment after.
FinalizeNewEpoch ==
    /\ pc = "finalize_new_epoch"
    /\ LET r == ExecuteBlock(tree, all_ops)
       IN  /\ prev_commitment' = Commitment(tree)
           /\ tree' = r.tree
           /\ proofs' = r.proofs
           /\ new_commitment' = Commitment(r.tree)
    /\ pc' = "prove_epoch"
    /\ UNCHANGED <<cfg, dbVars, da_epochs, err, loopVars, buffered_operations,
                   callVars, epoch_height, all_ops, finalized_epoch, new_epoch,
                   step, histVars>>

\* Prover::prove_epoch: the zkVM proof, its local verification, the signed
\* FinalizedEpoch.  Proving and verifying may fail.
ProveEpoch ==
    /\ pc = "prove_epoch"
    /\ \/ /\ finalized_epoch' =
                Some(NewFinalizedEpoch(epoch_height, prev_commitment,
                                       new_commitment, proofs))
          /\ step' = 1
          /\ pc' = "fin_tail"
          /\ UNCHANGED <<err, buffered_operations, callVars, epoch_height,
                         all_ops, prev_commitment, proofs, new_commitment,
                         new_epoch>>
       \/ Fatal("prove")
       \/ Fatal("verify")
    /\ UNCHANGED <<cfg, dbVars, tree, da_epochs, loopVars, histVars>>

\* The step after a call of finalize_new_epoch's tail: the next call, or the
\* return to process_da_height.
FinalizeAdvance ==
    IF step < Len(FinalizeTail)
    THEN /\ step' = step + 1
         /\ UNCHANGED <<pc, finVars, new_commitment>>
    ELSE /\ step' = 0
         /\ pc' = "extend"
         /\ epoch_height' = 0
         /\ all_ops' = <<>>
         /\ prev_commitment' = 0
         /\ proofs' = <<>>
         /\ finalized_epoch' = None
         /\ new_commitment' = 0

\* finalize_new_epoch: self.da.submit_finalized_epoch(finalized_epoch).await?
SubmitFinalizedEpoch ==
    /\ pc = "fin_tail"
    /\ FinalizeTail[step] = "submit"
    /\ \/ /\ da_epochs' = Append(da_epochs, finalized_epoch[1])
          /\ FinalizeAdvance
          /\ UNCHANGED <<err, buffered_operations, callVars, new_epoch>>
       \/ /\ Fatal("submit")
          /\ UNCHANGED da_epochs
    /\ UNCHANGED <<cfg, dbVars, tree, loopVars, histVars>>

\* finalize_new_epoch: self.db.set_commitment(&new_epoch_height, &new_commitment)?
FinalizeSetCommitment ==
    /\ pc = "fin_tail"
    /\ FinalizeTail[step] = "set_commitment"
    /\ \/ /\ db_commitments' =
                SetCommitment(db_commitments, epoch_height + 1, new_commitment)
          /\ FinalizeAdvance
          /\ UNCHANGED <<err, buffered_operations, callVars, new_epoch>>
       \/ /\ Fatal("db")
          /\ UNCHANGED db_commitments
    /\ UNCHANGED <<cfg, db_epoch, db_last_synced, tree, da_epochs, loopVars,
                   histVars>>

\* finalize_new_epoch: self.db.set_epoch(&new_epoch_height)?
FinalizeSetEpoch ==
    /\ pc = "fin_tail"
    /\ FinalizeTail[step] = "set_epoch"
    /\ \/ /\ db_epoch' = epoch_height + 1
          /\ FinalizeAdvance
          /\ UNCHANGED <<err, buffered_operations, callVars, new_epoch>>
       \/ /\ Fatal("db")
          /\ UNCHANGED db_epoch
    /\ UNCHANGED <<cfg, db_commitments, db_last_synced, tree, da_epochs,
                   loopVars, histVars>>

\* -------------------------------------------------- the end of an iteration
\* process_da_height: the operations of the height join the buffer; Ok(()).
ExtendBuffer ==
    /\ pc = "extend"
    /\ buffered_operations' = buffered_operations \o operations
    /\ current_epoch' = 0
    /\ operations' = <<>>
    /\ epoch_result' = None
    /\ pc' = "after_height"
    /\ UNCHANGED <<cfg, dbVars, tree, da_epochs, err, loopVars, height,
                   is_real_time, finVars, new_commitment, new_epoch, step,
                   histVars>>

\* sync_loop, the historical loop after process_da_height:
\* set_last_synced_height(&current_height)?; current_height += 1.
HistoricalTail ==
    /\ pc = "after_height"
    /\ ~is_real_time
    /\ \/ /\ db_last_synced' = Some(current_height)
          /\ current_height' = current_height + 1
          /\ completed' = Some(height)
          /\ pc' = "historical"
          /\ UNCHANGED <<err, localVars>>
       \/ /\ Fatal("db")
          /\ UNCHANGED <<db_last_synced, current_height, completed>>
    /\ UNCHANGED <<cfg, db_epoch, db_commitments, tree, da_epochs, start_height,
                   end_height, received, processed, pre, fin_tree0>>

\* sync_loop, the live loop after process_da_height:
\* current_height += 1; set_last_synced_height(&current_height)?.
LiveTail ==
    /\ pc = "after_height"
    /\ is_real_time
    /\ current_height' = current_height + 1
    /\ \/ /\ db_last_synced' = Some(current_height')
          /\ completed' = Some(height)
          /\ pc' = "live"
          /\ UNCHANGED <<err, localVars>>
       \/ /\ Fatal("db")
          /\ UNCHANGED <<db_last_synced, completed>>
    /\ UNCHANGED <<cfg, db_epoch, db_commitments, tree, da_epochs, start_height,
                   end_height, received, processed, pre, fin_tree0>>

\* What the sync task never touches.
syncFrame == <<nodeVars, replayVars, keyVars, lockVars>>

\* The history of the buffer: what sync_loop's buffer gains was read at the
\* height being processed; the buffer only ever loses everything at once.
TrackBuffer ==
    buffered_from' =
        IF Len(buffered_operations') > Len(buffered_operations)
        THEN buffered_from \o
             [i \in 1..(Len(buffered_operations') - Len(buffered_operations))
                 |-> height]
        ELSE IF Len(buffered_operations') < Len(buffered_operations)
        THEN <<>>
        ELSE buffered_from

Next ==
    \/ MainLoop /\ TrackBuffer /\ UNCHANGED syncFrame
    \/ SyncLoopStart /\ TrackBuffer /\ UNCHANGED syncFrame
    \/ HistoricalLoop /\ TrackBuffer /\ UNCHANGED syncFrame
    \/ LiveLoop /\ TrackBuffer /\ UNCHANGED syncFrame
    \/ ProcessDaHeight /\ TrackBuffer /\ UNCHANGED syncFrame
    \/ ProcessEpoch /\ TrackBuffer /\ UNCHANGED syncFrame
    \/ ProcessEpochSetCommitment /\ TrackBuffer /\ UNCHANGED syncFrame
    \/ ProcessEpochSetEpoch /\ TrackBuffer /\ UNCHANGED syncFrame
    \/ MaybeFinalize /\ TrackBuffer /\ UNCHANGED syncFrame
    \/ FinalizeNewEpoch /\ TrackBuffer /\ UNCHANGED syncFrame
    \/ ProveEpoch /\ TrackBuffer /\ UNCHANGED syncFrame
    \/ SubmitFinalizedEpoch /\ TrackBuffer /\ UNCHANGED syncFrame
    \/ FinalizeSetCommitment /\ TrackBuffer /\ UNCHANGED syncFrame
    \/ FinalizeSetEpoch /\ TrackBuffer /\ UNCHANGED syncFrame
    \/ ExtendBuffer /\ TrackBuffer /\ UNCHANGED syncFrame
    \/ HistoricalTail /\ TrackBuffer /\ UNCHANGED syncFrame
    \/ LiveTail /\ TrackBuffer /\ UNCHANGED syncFrame

Spec == Init /\ [][Next]_vars

\* ------------------------------------------------------------------ claims
Last(q) == q[Len(q)]

IsLive(p) == p.live

IsHistorical(p) == ~p.live

\* The calls of process_da_height made by the historical loop / the live loop.
HistoricalCalls == SelectSeq(processed, IsHistorical)

LiveCalls == SelectSeq(processed, IsLive)

\* The commitment of the tree once the buffer of the call's start is applied.
CommitmentAfterBuffer == Commitment(ExecuteBlock(pre.tree, pre.buf).tree)

\* C1: while a found epoch ep with ep.height >= e (the persisted epoch when the
\* height's processing began) is handled, the persisted epoch changes only from
\* e to e+1, and only if ep.height = e, ep.prev_commitment = commitment(e) and
\* the tree's commitment after the buffered operations are applied is
\* ep.current_commitment; commitment(e+1) is then ep.current_commitment.
C1_EpochAdvanceGuarded ==
    [][(/\ epoch_result # None
        /\ epoch_result[1].height >= pre.epoch
        /\ db_epoch' # db_epoch)
       => LET ep == epoch_result[1]
              e == pre.epoch
          IN  /\ db_epoch = e
              /\ db_epoch' = e + 1
              /\ ep.height = e
              /\ ep.prev_commitment = pre.commitments[e]
              /\ ep.current_commitment = CommitmentAfterBuffer
              /\ Commitment(tree) = ep.current_commitment
              /\ (e + 1) \in DOMAIN db_commitments'
              /\ db_commitments'[e + 1] = ep.current_commitment]_vars

\* C1 witness: a found epoch was applied over a non-empty buffer that changed
\* the tree, and the epoch advanced.
C1_Witness ==
    /\ pc = "maybe_finalize"
    /\ epoch_result # None
    /\ epoch_result[1].height = pre.epoch
    /\ db_epoch = pre.epoch + 1
    /\ pre.buf # <<>>
    /\ tree # pre.tree

ConsensusErrors ==
    {"epoch_height_mismatch", "prev_commitment_mismatch", "new_commitment_mismatch"}

\* The found epoch is not ignored and fails one of the three checks.
ConsensusMismatch ==
    /\ pc = "process_epoch"
    /\ LET ep == epoch_result[1]
           e == db_epoch
       IN  /\ ep.height >= e
           /\ \/ ep.height # e
              \/ ep.prev_commitment # db_commitments[e]
              \/ ep.current_commitment
                    # Commitment(ExecuteBlock(tree, buffered_operations).tree)

\* C2: a found epoch that fails a consensus check ends the sync task with a
\* consensus error, and the persisted epoch and commitment map are what they
\* were when the height's processing began.
C2_MismatchIsFatal ==
    [][ConsensusMismatch
       => /\ pc' = "fatal"
          /\ err' \in ConsensusErrors
          /\ db_epoch' = pre.epoch
          /\ db_commitments' = pre.commitments]_vars

\* C2 witness: the resulting-commitment check failed after operations were
\* applied to the tree of a fresh sync; the epoch is still 0.
C2_Witness ==
    /\ pc = "fatal"
    /\ err = "new_commitment_mismatch"
    /\ tree # pre.tree
    /\ db_epoch = 0
    /\ pre.epoch = 0

\* C3: in the live loop, once a height h has been processed, a received height
\* is processed iff it is h+1; any other one ends the sync task and is not
\* processed.
C3_LiveSequential ==
    [][(Len(received') > Len(received) /\ processed # <<>>)
       => LET h == Last(received')
              last == Last(processed).h
          IN  IF h = last + 1
              THEN /\ pc' = "process_da_height"
                   /\ height' = h
                   /\ is_real_time'
                   /\ processed' = Append(processed, [h |-> h, live |-> TRUE])
              ELSE /\ pc' = "fatal"
                   /\ err' = "not_sequential"
                   /\ processed' = processed]_vars

\* C3 witness: after a live height was processed, another height than the next
\* one arrived and ended the sync task.
C3_Witness ==
    /\ pc = "fatal"
    /\ err = "not_sequential"
    /\ LiveCalls # <<>>
    /\ Last(received) # Last(processed).h + 1

\* The sync task is in the Live state.
InLive == pc = "live" \/ LiveCalls # <<>>

\* What C4 says of the historical loop: the historical calls are start,
\* start+1, ... up to end_height at most, they precede the live calls, and in
\* Live every height start..end_height has been processed and current_height
\* is above end_height.
HistoricalInclusive ==
    /\ \A i \in 1..Len(HistoricalCalls) :
          /\ HistoricalCalls[i].h = start_height + i - 1
          /\ HistoricalCalls[i].h <= end_height
    /\ \A i, j \in 1..Len(processed) :
          (i < j /\ processed[i].live) => processed[j].live
    /\ InLive =>
          /\ current_height > end_height
          /\ \A h \in start_height..end_height :
                \E i \in 1..Len(HistoricalCalls) : HistoricalCalls[i].h = h

\* C4 as stated: ... and the first height accepted in Live is end_height + 1.
C4_Original ==
    /\ HistoricalInclusive
    /\ LiveCalls # <<>> => LiveCalls[1].h = end_height + 1

\* C4 amended: ... and the first height accepted in Live is end_height + 1 when
\* the loaded start is at most end_height, and the loaded start when it is
\* above end_height.
C4_Amended ==
    /\ HistoricalInclusive
    /\ LiveCalls # <<>> =>
          LiveCalls[1].h =
              IF start_height <= end_height THEN end_height + 1 ELSE start_height

\* C4 witness: two heights or more were replayed and a live height accepted.
C4_Witness ==
    /\ Len(HistoricalCalls) >= 2
    /\ LiveCalls # <<>>
    /\ LiveCalls[1].h = end_height + 1

\* C5 as stated: when an iteration of the historical or the live loop has
\* ended for height h, the persisted last synced height is h.
C5_Original ==
    (pc \in {"historical", "live"} /\ completed # None)
        => db_last_synced = completed

\* C6: when finalize_new_epoch is called the node is prover-enabled, the height
\* processed is a live one, the operations passed are not empty and
\* epoch_height is the persisted epoch.
C6_FinalizerPreconditions ==
    pc = "finalize_new_epoch"
        => /\ cfg.prover
           /\ is_real_time
           /\ Last(processed).live
           /\ Last(processed).h = height
           /\ all_ops # <<>>
           /\ epoch_height = db_epoch

\* C6 witness: the finalizer is called for an epoch after the first one.
C6_Witness ==
    /\ pc = "finalize_new_epoch"
    /\ epoch_height >= 1

\* C7 as stated: finalize_new_epoch is called only at a height with no
\* finalized epoch on DA.
C7_Original == pc = "finalize_new_epoch" => epoch_result = None

\* C7 amended: finalize_new_epoch is called only at a height with no finalized
\* epoch on DA or with one that was ignored because its height is below the
\* persisted epoch; never at a height whose epoch has ep.height >= that epoch.
C7_Amended ==
    pc = "finalize_new_epoch"
        => \/ epoch_result = None
           \/ /\ epoch_result[1].height < db_epoch
              /\ db_epoch = pre.epoch
              /\ db_commitments = pre.commitments

\* C7 witness: the finalizer is called at a height that holds an epoch.
C7_Witness ==
    /\ pc = "finalize_new_epoch"
    /\ epoch_result # None

\* C8: an epoch submitted to DA has the height the finalizer was called with,
\* the commitment of the tree as it was at the call as prev_commitment, the
\* commitment of the tree with the batch applied as current_commitment, and a
\* signature.
C8_SubmittedEpoch ==
    [][da_epochs' # da_epochs
       => LET e == Last(da_epochs')
          IN  /\ da_epochs' = Append(da_epochs, e)
              /\ e.height = epoch_height
              /\ e.height = db_epoch
              /\ e.prev_commitment = Commitment(fin_tree0)
              /\ e.current_commitment
                    = Commitment(ExecuteBlock(fin_tree0, all_ops).tree)
              /\ e.current_commitment = Commitment(tree)
              /\ e.signature # None]_vars

\* C8 witness: an epoch whose batch changed the tree was submitted.
C8_Witness ==
    /\ da_epochs # <<>>
    /\ Last(da_epochs).prev_commitment # Last(da_epochs).current_commitment

\* C9: the finalizer writes commitment(epoch_height+1) and the epoch only after
\* this call's epoch is on DA; when proving, verifying or submitting fails the
\* sync task ends, the persisted epoch and commitments are unchanged, and the
\* tree holds the applied batch (its commitment is new_commitment, which is
\* not the persisted one once an operation of the batch was applied).
C9_SubmitBeforePersist ==
    [][/\ (pc \in {"finalize_new_epoch", "prove_epoch", "fin_tail"}
           /\ (db_commitments' # db_commitments \/ db_epoch' # db_epoch))
          => /\ finalized_epoch # None
             /\ Len(da_epochs) = pre.submitted + 1
             /\ Last(da_epochs) = finalized_epoch[1]
       /\ (pc \in {"prove_epoch", "fin_tail"}
           /\ err' \in {"prove", "verify", "submit"})
          => /\ pc' = "fatal"
             /\ db_epoch' = pre.epoch
             /\ db_commitments' = pre.commitments
             /\ tree' = ExecuteBlock(fin_tree0, all_ops).tree
             /\ Commitment(tree') = new_commitment
             /\ proofs # <<>>
                   => Commitment(tree') # db_commitments'[db_epoch']]_vars

\* C9 witness: the submission failed and the tree is ahead of the database.
C9_Witness ==
    /\ pc = "fatal"
    /\ err = "submit"
    /\ da_epochs = <<>>
    /\ Commitment(tree) # db_commitments[db_epoch]

\* C10: whenever the persisted epoch is e+1, commitment(e+1) is persisted.
C10_CommitmentBeforeEpoch ==
    db_epoch >= 1 => db_epoch \in DOMAIN db_commitments

\* C10 witness: between the two writes, commitment(e+1) is visible while the
\* epoch is still e, for an e above 0.
C10_Witness ==
    /\ pc \in {"pe_persist", "fin_tail"}
    /\ db_epoch >= 1
    /\ (db_epoch + 1) \in DOMAIN db_commitments

\* The positions of process_da_height before the operations of the height
\* join the buffer.
BeforeExtend ==
    {"process_epoch", "pe_persist", "maybe_finalize", "finalize_new_epoch",
     "prove_epoch", "fin_tail", "extend"}

\* C18: the operations read at height h join the buffer at the end of the
\* call, after the epoch found at h was processed and after the finalization
\* at h: a batch applied at h holds only operations read below h, and the
\* buffer holds the operations in DA order, ascending by height and within a
\* height as get_operations returned them.
C18_OperationsJoinLast ==
    /\ [](/\ Len(buffered_from) = Len(buffered_operations)
          /\ \A i, j \in 1..Len(buffered_from) :
                i < j => buffered_from[i] <= buffered_from[j]
          /\ pc \in BeforeExtend =>
                \A i \in 1..Len(buffered_from) : buffered_from[i] < height)
    /\ [][/\ pc = "maybe_finalize" /\ pc' = "finalize_new_epoch"
                => all_ops' = buffered_operations
          /\ pc = "process_epoch" /\ pc' = "pe_persist"
                => tree' = ExecuteBlock(tree, buffered_operations).tree
          /\ pc' = "extend" /\ pc # "extend"
                => pc \in {"maybe_finalize", "fin_tail"}
          /\ buffered_operations' # buffered_operations /\ buffered_operations' # <<>>
                => /\ pc = "extend"
                   /\ buffered_operations' = buffered_operations \o operations]_vars

\* An epoch was finalized and submitted at this height and the operations
\* read at this height are about to join the emptied buffer.
C18_Witness ==
    /\ pc = "extend"
    /\ operations # <<>>
    /\ Len(da_epochs) = pre.submitted + 1
    /\ buffered_operations = <<>>

\* The tree after the first k operations of ops were offered to it in order,
\* a failing operation leaving it as it was.
RECURSIVE TreeAfter(_, _, _)
TreeAfter(t, ops, k) ==
    IF k = 0
    THEN t
    ELSE TreeProcessOperation(TreeAfter(t, ops, k - 1), ops[k]).tree

\* The k-th operation of ops succeeds on the tree its predecessors left.
Succeeds(t, ops, k) == TreeProcessOperation(TreeAfter(t, ops, k - 1), ops[k]).ok

\* The proofs of the successful operations among the first k, in their order.
RECURSIVE ProofsUpTo(_, _, _)
ProofsUpTo(t, ops, k) ==
    IF k = 0
    THEN <<>>
    ELSE ProofsUpTo(t, ops, k - 1)
            \o (IF Succeeds(t, ops, k)
                THEN <<TreeProcessOperation(TreeAfter(t, ops, k - 1), ops[k]).proof>>
                ELSE <<>>)

\* C19: execute_block never fails because of an operation: the finalizer
\* always goes on to prove_epoch, and epoch replay fails only on one of its
\* own checks; a failing operation is skipped, the others are applied in their
\* order, and the proofs are those of the successful operations in that
\* order.
C19_FailedOperationsSkipped ==
    [][/\ pc = "finalize_new_epoch"
            => /\ pc' = "prove_epoch"
               /\ err' = err
               /\ tree' = TreeAfter(tree, all_ops, Len(all_ops))
               /\ proofs' = ProofsUpTo(tree, all_ops, Len(all_ops))
               /\ Len(proofs')
                    = Cardinality({k \in 1..Len(all_ops) : Succeeds(tree, all_ops, k)})
       /\ pc = "process_epoch" /\ (pc' = "pe_persist" \/ err' = "new_commitment_mismatch")
            => tree' = TreeAfter(tree, buffered_operations, Len(buffered_operations))
       /\ pc = "process_epoch"
            => err' \in {"none", "db"} \cup ConsensusErrors]_vars

\* The finalizer applied a batch whose first operation failed and whose
\* second succeeded: one proof for two operations.
C19_Witness ==
    /\ pc = "prove_epoch"
    /\ Len(all_ops) = 2
    /\ ~Succeeds(fin_tree0, all_ops, 1)
    /\ Succeeds(fin_tree0, all_ops, 2)
    /\ Len(proofs) = 1

\* C20: a found epoch whose height is below the persisted epoch counter is
\* ignored: process_epoch returns Ok and leaves the persisted epoch, the
\* commitment map, the tree and the buffer as they were, whatever the
\* commitments of the epoch are.
C20_OldEpochIgnored ==
    [][pc = "process_epoch" /\ epoch_result[1].height < db_epoch
            => /\ pc' = "maybe_finalize"
               /\ err' = "none"
               /\ UNCHANGED <<dbVars, tree, buffered_operations, da_epochs>>]_vars

\* An epoch below the persisted counter was ignored although its previous
\* commitment is not the one the node holds for its height, and the buffer
\* still holds its operations.
C20_Witness ==
    /\ pc = "maybe_finalize"
    /\ epoch_result # None
    /\ epoch_result[1].height < pre.epoch
    /\ epoch_result[1].height \in DOMAIN db_commitments
    /\ epoch_result[1].prev_commitment # db_commitments[epoch_result[1].height]
    /\ buffered_operations # <<>>
    /\ db_epoch = pre.epoch /\ db_commitments = pre.commitments /\ tree = pre.tree

\* ================================================================== node
\* Prover::run, post_batch_loop and validate_and_queue_update.  Every
\* acquisition of pending_operations' write lock is a step, so the callers
\* and the batcher interleave wherever tokio can interleave them.  The sync
\* task and the web server are tasks of run; here only their exit is a step.

\* At most MaxPushes operations are accepted.
MaxPushes == 3

runVars == <<run_pc, run_result, tasks>>

bufVars == <<pending_operations, pending_lock>>

batcherVars == <<batcher_pc, batcher_height, batch, submits>>

callerVars == <<caller, returned, pushed>>

allVars == <<vars, buffered_from, nodeVars, replayVars, keyVars, lockVars>>

\* The arm of validate_and_queue_update that looks the hashchain up.
NeedsHashchain(op) == op.kind = "AddKey"

VerdictWithoutDryRun(batcher, valid, needs, found, dry) ==
    IF ~batcher THEN "batcher_disabled"
    ELSE IF ~valid THEN "invalid"
    ELSE IF needs /\ ~found THEN "not_found"
    ELSE "Ok"

\* The checks of validate_and_queue_update in the order of the code: the
\* batcher is enabled, the operation validates, and for an update its
\* hashchain exists and the operation applies to the copy of it.
Verdict(batcher, valid, needs, found, dry) ==
    IF ~batcher THEN "batcher_disabled"
    ELSE IF ~valid THEN "invalid"
    ELSE IF needs /\ ~found THEN "not_found"
    ELSE IF needs /\ ~dry THEN "dry_run_failed"
    ELSE "Ok"

MemTakeClone(buf) == buf

\* What std::mem::take leaves in the buffer.
MemTake(buf) == <<>>

AfterSubmitRetry(ok) == IF ok THEN "recv" ELSE "submit"

\* Both arms of the submit result only log: the loop goes on to the next recv.
AfterSubmit(ok) == "recv"

\* The batch poster is spawned when cfg.batcher is set.
SpawnBatcher(c) == c.batcher

\* The web server is spawned when cfg.webserver.enabled is set.
SpawnWebServer(c) == c.webserver

\* The JoinSet after the spawns of run.
Spawned(c) ==
    [t \in Tasks |-> IF \/ t = "sync"
                        \/ t = "batcher" /\ SpawnBatcher(c)
                        \/ t = "webserver" /\ SpawnWebServer(c)
                     THEN "running" ELSE "absent"]

RunReturnPropagates(r) == r

\* Whatever join_next yields, run returns Err.
RunReturn(r) == "Err"

Running(t) == run_pc = "join" /\ tasks[t] = "running"

InFlight == {c \in Callers : caller[c].pc # "idle"}

\* Prover::run up to join_next: da.start, then the spawns.
RunStart ==
    /\ run_pc = "start"
    /\ \/ /\ run_pc' = "join"
          /\ tasks' = Spawned(cfg)
          /\ batcher_pc' = IF tasks'["batcher"] = "running" THEN "recv" ELSE "off"
          /\ UNCHANGED run_result
       \/ /\ run_pc' = "returned"   \* da.start failed
          /\ run_result' = "Err"
          /\ UNCHANGED <<tasks, batcher_pc>>
    /\ UNCHANGED <<vars, buffered_from, replayVars, keyVars, lockVars, bufVars, batcher_height, batch, submits, callerVars>>

\* main_loop returns: it only ever returns an error.
SyncTaskExits ==
    /\ Running("sync")
    /\ tasks' = [tasks EXCEPT !["sync"] = "Err"]
    /\ UNCHANGED <<vars, buffered_from, replayVars, keyVars, lockVars, bufVars, run_pc, run_result, batcherVars, callerVars>>

\* ws.start() returns, with either result.
WebServerExits ==
    /\ Running("webserver")
    /\ \E r \in {"Ok", "Err"} : tasks' = [tasks EXCEPT !["webserver"] = r]
    /\ UNCHANGED <<vars, buffered_from, replayVars, keyVars, lockVars, bufVars, run_pc, run_result, batcherVars, callerVars>>

\* join_next yields the result of a task that has exited; run returns and
\* the JoinSet, dropped, aborts the other tasks.
RunJoin ==
    /\ run_pc = "join"
    /\ \E t \in Tasks :
          /\ tasks[t] \in {"Ok", "Err"}
          /\ run_result' = RunReturn(tasks[t])
    /\ run_pc' = "returned"
    /\ tasks' = [t \in Tasks |-> IF tasks[t] = "running" THEN "aborted" ELSE tasks[t]]
    /\ UNCHANGED <<vars, buffered_from, replayVars, keyVars, lockVars, bufVars, batcherVars, callerVars>>

\* post_batch_loop, height_rx.recv().await?: the next height, or the error
\* that ends the batcher.
BatcherRecv ==
    /\ Running("batcher")
    /\ batcher_pc = "recv"
    /\ \/ /\ batcher_height < MaxHeight
          /\ batcher_height' = batcher_height + 1
          /\ batcher_pc' = "lock"
          /\ UNCHANGED tasks
       \/ /\ tasks' = [tasks EXCEPT !["batcher"] = "Err"]
          /\ batcher_pc' = "exited"
          /\ UNCHANGED batcher_height
    /\ UNCHANGED <<vars, buffered_from, replayVars, keyVars, lockVars, bufVars, run_pc, run_result, batch, submits, callerVars>>

\* self.pending_operations.write().await
BatcherLock ==
    /\ Running("batcher")
    /\ batcher_pc = "lock"
    /\ pending_lock = "free"
    /\ pending_lock' = "batcher"
    /\ batcher_pc' = "take"
    /\ UNCHANGED <<vars, buffered_from, replayVars, keyVars, lockVars, pending_operations, runVars, batcher_height, batch,
                   submits, callerVars>>

\* std::mem::take under the lock, the guard dropped at the end of the block;
\* then the test of is_empty.
BatcherTake ==
    /\ Running("batcher")
    /\ batcher_pc = "take"
    /\ batch' = pending_operations
    /\ pending_operations' = MemTake(pending_operations)
    /\ pending_lock' = "free"
    /\ batcher_pc' = IF pending_operations # <<>> THEN "submit" ELSE "recv"
    /\ UNCHANGED <<vars, buffered_from, replayVars, keyVars, lockVars, runVars, batcher_height, submits, callerVars>>

\* da.submit_operations(pending_operations): either result is logged, the
\* batch is dropped with the iteration.
BatcherSubmit ==
    /\ Running("batcher")
    /\ batcher_pc = "submit"
    /\ \E ok \in BOOLEAN :
          /\ submits' = Append(submits, [height |-> batcher_height,
                                         batch |-> batch, ok |-> ok])
          /\ batcher_pc' = AfterSubmit(ok)
          /\ batch' = IF AfterSubmit(ok) = "recv" THEN <<>> ELSE batch
    /\ UNCHANGED <<vars, buffered_from, replayVars, keyVars, lockVars, bufVars, runVars, batcher_height, callerVars>>

\* validate_and_queue_update up to the push: the checks.  `valid` is the
\* result of incoming_operation.validate(), `found` of get_hashchain on the
\* tree, `dry` of perform_operation on the copy get_hashchain returned; a
\* check the code does not reach has no result to choose.
CallValidate(c) ==
    /\ run_pc = "join"
    /\ caller[c].pc = "idle"
    /\ Len(pushed) + Cardinality(InFlight) < MaxPushes
    /\ \E op \in Operation :
       \E valid \in IF cfg.batcher THEN BOOLEAN ELSE {TRUE} :
          LET needs == NeedsHashchain(op)
              found == tree[op.id] > 0
          IN  \E dry \in IF cfg.batcher /\ valid /\ needs /\ found
                         THEN BOOLEAN ELSE {TRUE} :
                 LET v == Verdict(cfg.batcher, valid, needs, found, dry)
                 IN  IF v = "Ok"
                     THEN /\ caller' = [caller EXCEPT ![c] =
                                 [pc |-> "lock", op |-> op,
                                  checks |-> [valid |-> valid, found |-> found,
                                              dry |-> dry]]]
                          /\ UNCHANGED returned
                     ELSE /\ returned' = v
                          /\ UNCHANGED caller
    /\ UNCHANGED <<vars, buffered_from, replayVars, keyVars, lockVars, bufVars, runVars, batcherVars, pushed>>

\* self.pending_operations.write().await
CallLock(c) ==
    /\ run_pc = "join"
    /\ caller[c].pc = "lock"
    /\ pending_lock = "free"
    /\ pending_lock' = c
    /\ caller' = [caller EXCEPT ![c].pc = "push"]
    /\ UNCHANGED <<vars, buffered_from, replayVars, keyVars, lockVars, pending_operations, runVars, batcherVars, returned,
                   pushed>>

\* pending.push(incoming_operation.clone()); Ok(()) drops the guard.
CallPush(c) ==
    /\ run_pc = "join"
    /\ caller[c].pc = "push"
    /\ pending_operations' = Append(pending_operations, caller[c].op)
    /\ pushed' = Append(pushed, [by |-> c, op |-> caller[c].op])
    /\ pending_lock' = "free"
    /\ caller' = [caller EXCEPT ![c] = IdleCaller]
    /\ returned' = "Ok"
    /\ UNCHANGED <<vars, buffered_from, replayVars, keyVars, lockVars, runVars, batcherVars>>

\* A database and tree some sync has left behind, and any configuration of
\* the batcher and the web server.
InitNodeConfig ==
    /\ cfg \in [prover : {TRUE}, start_height : {DefaultStartHeight},
                batcher : BOOLEAN, webserver : BOOLEAN]
    /\ tree \in [Ids -> {0, 1}]
    /\ db_epoch = 0
    /\ db_last_synced = None
    /\ db_commitments = SetCommitment(NoCommitments, 0, Commitment(tree))
    /\ da_epochs = <<>>
    /\ InitSyncLocals
    /\ ReplayIdle
    /\ KeysIdle
    /\ LockIdle

\* Prover::run from its first line; no request is served.
InitRun == InitNodeConfig /\ NodeIdle

NextRun ==
    \/ RunStart
    \/ SyncTaskExits
    \/ WebServerExits
    \/ RunJoin
    \/ BatcherRecv
    \/ BatcherLock
    \/ BatcherTake

SpecRun == InitRun /\ [][NextRun]_allVars

\* The node with its tasks spawned and running: the batcher and the callers
\* of validate_and_queue_update, whose requests the web server passes on.
InitBatcher ==
    /\ InitNodeConfig
    /\ cfg.webserver
    /\ pending_operations = <<>>
    /\ pending_lock = "free"
    /\ run_pc = "join"
    /\ run_result = "none"
    /\ tasks = Spawned(cfg)
    /\ batcher_pc = IF tasks["batcher"] = "running" THEN "recv" ELSE "off"
    /\ batcher_height = 0
    /\ batch = <<>>
    /\ caller = [c \in Callers |-> IdleCaller]
    /\ returned = "none"
    /\ pushed = <<>>
    /\ submits = <<>>

NextBatcher ==
    \/ BatcherRecv
    \/ BatcherLock
    \/ BatcherTake
    \/ BatcherSubmit
    \/ \E c \in Callers : CallValidate(c)
    \/ \E c \in Callers : CallLock(c)
    \/ \E c \in Callers : CallPush(c)

SpecBatcher == InitBatcher /\ [][NextBatcher]_allVars

\* run awaits join_next: when a task has exited the runtime wakes run.
SpecRunFair == SpecRun /\ WF_allVars(RunJoin)

\* ------------------------------------------------------- claims, the node
RECURSIVE Flatten(_)
Flatten(batches) ==
    IF batches = <<>> THEN <<>> ELSE Head(batches) \o Flatten(Tail(batches))

\* The operations the batcher has taken out of the buffer, in order: the
\* batches it has handed to submit_operations, then the one it holds.
DrainedOps == Flatten([i \in 1..Len(submits) |-> submits[i].batch]) \o batch

PushedOps == [i \in 1..Len(pushed) |-> pushed[i].op]

\* C11: under any interleaving of the callers' pushes with the batcher's
\* drain, the drained batches followed by the buffer are exactly the accepted
\* operations in push order: none is lost, none is duplicated, their number
\* is the number of pushes, and every caller's operations keep their order.
C11_NoLossNoDuplication ==
    /\ DrainedOps \o pending_operations = PushedOps
    /\ Len(DrainedOps) + Len(pending_operations) = Len(pushed)
    /\ pending_lock = "batcher" <=> batcher_pc = "take"
    /\ \A c \in Callers : pending_lock = c <=> caller[c].pc = "push"

\* Two callers have pushed, the batcher drained between their pushes and an
\* operation pushed after a drain waits in the buffer.
C11_Witness ==
    /\ Len(submits) >= 1
    /\ Len(pushed) >= 3
    /\ pushed[1].by # pushed[2].by
    /\ Len(submits[1].batch) = 1
    /\ pending_operations # <<>>

\* C12: the batcher calls submit_operations at most once per height and only
\* with a non-empty batch; a failed submit neither ends the batcher nor is
\* retried: the batch is dropped, the buffer is not refilled and the batcher
\* waits for the next height.
C12_SubmitOncePerHeight ==
    /\ [](/\ \A i \in 1..Len(submits) : submits[i].batch # <<>>
          /\ \A i, j \in 1..Len(submits) :
                i < j => submits[i].height < submits[j].height)
    /\ [][Len(submits') > Len(submits) /\ ~submits'[Len(submits')].ok
            => /\ batcher_pc' = "recv"
               /\ tasks'["batcher"] = "running"
               /\ batch' = <<>>
               /\ pending_operations' = pending_operations]_allVars

\* A submit failed and the batcher went on to submit the next batch at a
\* later height.
C12_Witness ==
    /\ Len(submits) >= 2
    /\ ~submits[1].ok
    /\ tasks["batcher"] = "running"

\* C13: validate_and_queue_update changes the buffer only by appending the
\* operation once, and only when every check has passed; a rejection leaves
\* the buffer alone; the tree and the commitments are never touched.
C13_QueueFrame ==
    [][/\ tree' = tree /\ db_commitments' = db_commitments /\ db_epoch' = db_epoch
       /\ \A c \in Callers :
             caller[c].pc = "push" /\ caller'[c].pc # "push"
                => /\ pending_operations' = Append(pending_operations, caller[c].op)
                   /\ returned' = "Ok"
                   /\ cfg.batcher
                   /\ caller[c].checks.valid
                   /\ NeedsHashchain(caller[c].op)
                         => caller[c].checks.found /\ caller[c].checks.dry
       /\ pending_operations' # pending_operations
             => \/ batcher_pc = "take"
                \/ \E c \in Callers : caller[c].pc = "push"
       /\ returned' # returned /\ returned' # "Ok"
             => /\ pending_operations' = pending_operations
                /\ pushed' = pushed
                /\ caller' = caller]_allVars

\* A dry run failed while accepted operations were in the buffer.
C13_Witness ==
    /\ returned = "dry_run_failed"
    /\ pending_operations # <<>>

Exited == {t \in Tasks : tasks[t] \in {"Ok", "Err"}}

\* C14: run returns once a spawned task has exited, with Ok or with Err, and
\* what it returns is an error, never Ok; no task is restarted; the batcher
\* task exists only when cfg.batcher is set and the web-server task only when
\* cfg.webserver.enabled is set.
C14_RunEndsWithFirstExit ==
    /\ [](run_pc = "returned" => run_result = "Err")
    /\ [](run_pc = "join" =>
            /\ tasks["sync"] # "absent"
            /\ tasks["batcher"] # "absent" <=> cfg.batcher
            /\ tasks["webserver"] # "absent" <=> cfg.webserver)
    /\ [][/\ run_pc = "join" /\ run_pc' # "join"
                => run_pc' = "returned" /\ Exited # {}
          /\ \A t \in Tasks :
                /\ tasks[t] \in {"Ok", "Err", "aborted"} => tasks'[t] = tasks[t]
                /\ run_pc # "start" /\ tasks[t] = "absent" => tasks'[t] = "absent"]_allVars
    /\ (Exited # {}) ~> (run_pc = "returned")

\* The web server returned Ok and run returned while the sync task and the
\* batcher were still running.
C14_Witness ==
    /\ run_pc = "returned"
    /\ tasks["webserver"] = "Ok"
    /\ tasks["sync"] = "aborted"
    /\ tasks["batcher"] = "aborted"

\* ================================================================ replay
\* A full node (cfg.prover = false) syncs a recorded DA transcript that is
\* complete when the node starts: every height is at or below the first
\* height of the subscription, so the whole transcript is synced by the
\* historical loop.  The transcript is replayed twice from a fresh database:
\* first without interruption, then by a node that may be stopped between
\* two heights and started again.  Database and DA calls succeed.

\* The node is stopped and started again at most MaxRestarts times.
MaxRestarts == 1

\* What get_operations and get_finalized_epoch return for one height.
ReplayBlobs ==
    [ops : OpsChoices(1),
     epoch : {None} \cup {Some(e) : e \in {d \in DAEpochs : d.height = 0}}]

RECURSIVE OpsUpTo(_, _)
OpsUpTo(tr, h) == IF h = 0 THEN 0 ELSE Len(tr[h].ops) + OpsUpTo(tr, h - 1)

\* Prover::new on a fresh database, then main_loop: the state of Init,
\* reached again by a restart of the process.
ResetSyncLocals ==
    /\ pc' = "main_loop"
    /\ err' = "none"
    /\ start_height' = 0
    /\ end_height' = 0
    /\ current_height' = 0
    /\ buffered_operations' = <<>>
    /\ height' = 0
    /\ is_real_time' = FALSE
    /\ current_epoch' = 0
    /\ operations' = <<>>
    /\ epoch_result' = None
    /\ epoch_height' = 0
    /\ all_ops' = <<>>
    /\ prev_commitment' = 0
    /\ proofs' = <<>>
    /\ new_commitment' = 0
    /\ new_epoch' = 0
    /\ finalized_epoch' = None
    /\ step' = 0
    /\ received' = <<>>
    /\ processed' = <<>>
    /\ completed' = None
    /\ pre' = [epoch |-> 0, commitments |-> NoCommitments, tree |-> EmptyTree,
               buf |-> <<>>, submitted |-> 0]
    /\ fin_tree0' = EmptyTree
    /\ buffered_from' = <<>>

InitReplay ==
    /\ cfg = [prover |-> FALSE, start_height |-> DefaultStartHeight]
    /\ db_epoch = 0
    /\ db_last_synced = None
    /\ db_commitments = NoCommitments
    /\ tree = EmptyTree
    /\ da_epochs = <<>>
    /\ InitSyncLocals
    /\ NodeIdle
    /\ KeysIdle
    /\ LockIdle
    /\ transcript \in [Heights -> ReplayBlobs]
    /\ OpsUpTo(transcript, MaxHeight) <= MaxBuffered
    /\ phase = 1
    /\ reference = None
    /\ restarts = 0

\* The sync task stands between two heights, or has synced the transcript.
BetweenHeights == pc \in {"historical", "live"}

\* The replay is over: the transcript is synced, or the sync task returned.
ReplayEnded == pc \in {"live", "fatal"}

\* Only the consensus checks of process_epoch end the sync task.
CallsSucceed == err' \in {"none"} \cup ConsensusErrors

replayFrame == <<nodeVars, replayVars, keyVars, lockVars>>

\* The first height of the subscription is the last height of the transcript.
ReplayMainLoop ==
    MainLoop /\ end_height' = MaxHeight /\ CallsSucceed /\ TrackBuffer /\ UNCHANGED replayFrame

\* get_operations and get_finalized_epoch return what the transcript holds.
ReplayProcessDaHeight ==
    /\ ProcessDaHeight
    /\ CallsSucceed
    /\ operations' = transcript[height].ops
    /\ epoch_result' = transcript[height].epoch
    /\ TrackBuffer /\ UNCHANGED replayFrame

\* The uninterrupted replay is over: what it persisted is kept, and the
\* second node starts from a fresh database.
EndFirstReplay ==
    /\ phase = 1
    /\ ReplayEnded
    /\ phase' = 2
    /\ reference' = Some([epoch |-> db_epoch, commitments |-> db_commitments])
    /\ db_epoch' = 0
    /\ db_last_synced' = None
    /\ db_commitments' = NoCommitments
    /\ tree' = EmptyTree
    /\ ResetSyncLocals
    /\ UNCHANGED <<cfg, da_epochs, nodeVars, keyVars, lockVars, transcript, restarts>>

\* The process is stopped between two heights and started again: the
\* database is what it was, the tree is loaded from it (between two heights
\* it stands at the persisted epoch), the buffer of sync_loop is gone.
Restart ==
    /\ phase = 2
    /\ BetweenHeights
    /\ restarts < MaxRestarts
    /\ restarts' = restarts + 1
    /\ ResetSyncLocals
    /\ UNCHANGED <<cfg, dbVars, tree, da_epochs, nodeVars, keyVars, lockVars, transcript,
                   phase, reference>>

NextReplay ==
    \/ ReplayMainLoop
    \/ SyncLoopStart /\ CallsSucceed /\ TrackBuffer /\ UNCHANGED replayFrame
    \/ HistoricalLoop /\ TrackBuffer /\ UNCHANGED replayFrame
    \/ ReplayProcessDaHeight
    \/ ProcessEpoch /\ CallsSucceed /\ TrackBuffer /\ UNCHANGED replayFrame
    \/ ProcessEpochSetCommitment /\ CallsSucceed /\ TrackBuffer /\ UNCHANGED replayFrame
    \/ ProcessEpochSetEpoch /\ CallsSucceed /\ TrackBuffer /\ UNCHANGED replayFrame
    \/ MaybeFinalize /\ TrackBuffer /\ UNCHANGED replayFrame
    \/ ExtendBuffer /\ TrackBuffer /\ UNCHANGED replayFrame
    \/ HistoricalTail /\ CallsSucceed /\ TrackBuffer /\ UNCHANGED replayFrame
    \/ EndFirstReplay
    \/ Restart

SpecReplay == InitReplay /\ [][NextReplay]_allVars

\* ----------------------------------------------------- claims, the replay
\* C15: for a fixed DA transcript, a node stopped and restarted between two
\* heights (resuming from the persisted epoch, commitments and
\* last_synced_height, its buffer lost) ends with the persisted epoch and
\* commitments of the node that replayed the transcript without interruption.
C15_Original ==
    phase = 2 /\ ReplayEnded
        => /\ db_epoch = reference[1].epoch
           /\ db_commitments = reference[1].commitments

\* Without a restart the second replay ends as the first did.
C15_SameWithoutRestart ==
    phase = 2 /\ ReplayEnded /\ restarts = 0
        => /\ db_epoch = reference[1].epoch
           /\ db_commitments = reference[1].commitments

\* ================================================================== keys
\* impl TryFrom<String> for VerifyingKey (crates/common/src/keys.rs).  A
\* string is the sequence of its characters' base64 values: 0..63 for the
\* alphabet, 64 for the padding '=', 65 for a character outside the alphabet.
\* A byte is a number in 0..255.

\* Decoded inputs have 0..MaxKeyBytes bytes.
MaxKeyBytes == 66

\* base64 STANDARD engine, encode: three bytes make four characters, the last
\* group is padded.
RECURSIVE Base64Encode(_)
Base64Encode(b) ==
    IF Len(b) = 0 THEN <<>>
    ELSE IF Len(b) = 1
    THEN <<b[1] \div 4, (b[1] % 4) * 16, 64, 64>>
    ELSE IF Len(b) = 2
    THEN <<b[1] \div 4, (b[1] % 4) * 16 + b[2] \div 16, (b[2] % 16) * 4, 64>>
    ELSE <<b[1] \div 4, (b[1] % 4) * 16 + b[2] \div 16,
           (b[2] % 16) * 4 + b[3] \div 64, b[3] % 64>>
         \o Base64Encode(SubSeq(b, 4, Len(b)))

\* base64 STANDARD engine, decode: four characters make three bytes; padding
\* is required, stands only at the end, and the bits it leaves unused are 0.
RECURSIVE Base64Decode(_)
Base64Decode(s) ==
    IF Len(s) = 0 THEN [ok |-> TRUE, bytes |-> <<>>]
    ELSE IF Len(s) < 4 \/ s[1] >= 64 \/ s[2] >= 64 \/ s[3] > 64 \/ s[4] > 64
    THEN [ok |-> FALSE, bytes |-> <<>>]
    ELSE IF s[3] = 64
    THEN IF Len(s) = 4 /\ s[4] = 64 /\ s[2] % 16 = 0
         THEN [ok |-> TRUE, bytes |-> <<s[1] * 4 + s[2] \div 16>>]
         ELSE [ok |-> FALSE, bytes |-> <<>>]
    ELSE IF s[4] = 64
    THEN IF Len(s) = 4 /\ s[3] % 4 = 0
         THEN [ok |-> TRUE,
               bytes |-> <<s[1] * 4 + s[2] \div 16,
                           (s[2] % 16) * 16 + s[3] \div 4>>]
         ELSE [ok |-> FALSE, bytes |-> <<>>]
    ELSE LET rest == Base64Decode(SubSeq(s, 5, Len(s)))
         IN  IF rest.ok
             THEN [ok |-> TRUE,
                   bytes |-> <<s[1] * 4 + s[2] \div 16,
                               (s[2] % 16) * 16 + s[3] \div 4,
                               (s[3] % 4) * 64 + s[4]>> \o rest.bytes]
             ELSE rest

KeyVariantForLengthCompressedOnly(n) ==
    IF n = 32 THEN "Ed25519"
    ELSE IF n = 33 THEN "Secp256k1"
    ELSE "Invalid public key length"

\* match bytes.len(): 32 is an Ed25519 key, 33 and 65 a secp256k1 key.
KeyVariantForLength(n) ==
    IF n = 32 THEN "Ed25519"
    ELSE IF n \in {33, 65} THEN "Secp256k1"
    ELSE "Invalid public key length"

\* Ed25519VerifyingKey::try_from(bytes): the key keeps the 32 bytes it was
\* made from; bytes that encode no curve point are refused.
Ed25519FromSlice(bytes, on_curve) ==
    IF on_curve
    THEN [ok |-> TRUE, key |-> [variant |-> "Ed25519", bytes |-> bytes]]
    ELSE [ok |-> FALSE, error |-> "Invalid Ed25519 key"]

\* Secp256k1VerifyingKey::from_slice(bytes): a compressed key is 02 or 03
\* (the parity of y) and x, an uncompressed key is 04, x and y; the key is
\* the point.  A wrong first byte or an x, y off the curve is refused.
Secp256k1FromSlice(bytes, on_curve) ==
    IF on_curve /\ Len(bytes) = 33 /\ bytes[1] \in {2, 3}
    THEN [ok |-> TRUE,
          key |-> [variant |-> "Secp256k1", x |-> SubSeq(bytes, 2, 33),
                   odd |-> bytes[1] - 2]]
    ELSE IF on_curve /\ Len(bytes) = 65 /\ bytes[1] = 4
    THEN [ok |-> TRUE,
          key |-> [variant |-> "Secp256k1", x |-> SubSeq(bytes, 2, 33),
                   odd |-> bytes[65] % 2]]
    ELSE [ok |-> FALSE, error |-> "Invalid Secp256k1 key"]

\* VerifyingKey::as_bytes: to_bytes of an Ed25519 key, the compressed
\* serialization of a secp256k1 key.
AsBytes(k) ==
    IF k.variant = "Ed25519" THEN k.bytes ELSE <<2 + k.odd>> \o k.x

\* VerifyingKey::try_from(s: String).  `on_curve` says whether the bytes of
\* s encode a point of the curve their length selects.
VerifyingKeyTryFrom(s, on_curve) ==
    LET d == Base64Decode(s)
        variant == KeyVariantForLength(Len(d.bytes))
    IN  IF ~d.ok THEN [ok |-> FALSE, error |-> "Failed to decode base64 string"]
        ELSE IF variant = "Ed25519" THEN Ed25519FromSlice(d.bytes, on_curve)
        ELSE IF variant = "Secp256k1" THEN Secp256k1FromSlice(d.bytes, on_curve)
        ELSE [ok |-> FALSE, error |-> variant]

\* impl Display for VerifyingKey
VerifyingKeyToString(k) == Base64Encode(AsBytes(k))

\* Sample byte strings: a first byte and a fixed pattern behind it.
KeyBytes(len, first) ==
    [i \in 1..len |-> IF i = 1 THEN first ELSE (i * 37) % 256]

\* First bytes: the two compressed tags, the uncompressed tag, another byte.
FirstBytes == {2, 3, 4, 200}

\* A string that is base64, or base64 cut short, or with a foreign character.
Damaged(s, how) ==
    IF how = "cut" /\ Len(s) > 0 THEN SubSeq(s, 1, Len(s) - 1)
    ELSE IF how = "foreign" THEN s \o <<65>>
    ELSE s

\* Any sample string, whose bytes do or do not encode a point; `of` is the
\* key the string was printed from, if it was.
InitKeys ==
    /\ cfg = [prover |-> TRUE, start_height |-> DefaultStartHeight]
    /\ db_epoch = 0
    /\ db_last_synced = None
    /\ db_commitments = NoCommitments
    /\ tree = EmptyTree
    /\ da_epochs = <<>>
    /\ InitSyncLocals
    /\ NodeIdle
    /\ ReplayIdle
    /\ LockIdle
    /\ \E len \in 0..MaxKeyBytes, first \in FirstBytes,
          how \in {"whole", "cut", "foreign"}, on_curve \in BOOLEAN :
          key_input = [s |-> Damaged(Base64Encode(KeyBytes(len, first)), how),
                       on_curve |-> on_curve, of |-> None]
    /\ key_result = None

\* VerifyingKey::try_from(s)
TryFromString ==
    /\ key_result = None
    /\ key_result' = Some(VerifyingKeyTryFrom(key_input.s, key_input.on_curve))
    /\ UNCHANGED <<vars, buffered_from, nodeVars, replayVars, lockVars, key_input>>

\* k.to_string() of a decoded key, given to try_from next: the bytes of a
\* key encode a point.
PrintKey ==
    /\ key_result # None
    /\ key_result[1].ok
    /\ key_input.of = None
    /\ key_input' = [s |-> VerifyingKeyToString(key_result[1].key),
                     on_curve |-> TRUE, of |-> Some(key_result[1].key)]
    /\ key_result' = None
    /\ UNCHANGED <<vars, buffered_from, nodeVars, replayVars, lockVars>>

NextKeys == TryFromString \/ PrintKey

SpecKeys == InitKeys /\ [][NextKeys]_allVars

\* ------------------------------------------------------- claims, the keys
Decoded == Base64Decode(key_input.s)

DecodedLen == Len(Decoded.bytes)

\* The bytes are a key the library accepts for the variant of their length.
IsKeyEncoding ==
    /\ Decoded.ok
    /\ key_input.on_curve
    /\ \/ DecodedLen = 32
       \/ DecodedLen = 33 /\ Decoded.bytes[1] \in {2, 3}
       \/ DecodedLen = 65 /\ Decoded.bytes[1] = 4

RoundTrip ==
    key_input.of # None
        => /\ key_result[1].ok
           /\ AsBytes(key_result[1].key) = AsBytes(key_input.of[1])
           /\ key_result[1].key = key_input.of[1]

\* C17 as stated: 32 decoded bytes yield an Ed25519 key, 33 or 65 a secp256k1
\* key, every other length is an error, and the base64 encoding of a key's
\* bytes decodes to a key with the same bytes.
C17_Original ==
    key_result # None /\ Decoded.ok
        => /\ DecodedLen = 32
                => key_result[1].ok /\ key_result[1].key.variant = "Ed25519"
           /\ DecodedLen \in {33, 65}
                => key_result[1].ok /\ key_result[1].key.variant = "Secp256k1"
           /\ DecodedLen \notin {32, 33, 65} => ~key_result[1].ok
           /\ RoundTrip

\* C17, amended: the decoded length selects the variant the bytes are parsed
\* as: 32 bytes give an Ed25519 key or the invalid-Ed25519-key error, 33 or
\* 65 bytes a secp256k1 key or the invalid-secp256k1-key error, the key
\* exactly when the bytes encode one; every other length and every string
\* that is not base64 is an error; and the base64 encoding of a key's bytes
\* decodes to a key with the same bytes.
C17_Amended ==
    key_result # None
        => LET r == key_result[1]
           IN  /\ r.ok <=> IsKeyEncoding
               /\ r.ok => (r.key.variant = "Ed25519" <=> DecodedLen = 32)
               /\ r.ok => (r.key.variant = "Secp256k1" <=> DecodedLen \in {33, 65})
               /\ ~Decoded.ok => r.error = "Failed to decode base64 string"
               /\ Decoded.ok /\ ~r.ok
                     => r.error = IF DecodedLen = 32 THEN "Invalid Ed25519 key"
                                  ELSE IF DecodedLen \in {33, 65}
                                  THEN "Invalid Secp256k1 key"
                                  ELSE "Invalid public key length"
               /\ RoundTrip

\* A secp256k1 key with an odd y was printed and its string decoded again.
C17_Witness ==
    /\ key_result # None
    /\ key_result[1].ok
    /\ key_input.of # None
    /\ key_result[1].key.variant = "Secp256k1"
    /\ DecodedLen = 33
    /\ key_result[1].key.odd = 1

\* ============================================================== live node
\* The prover with its batcher, the callers of validate_and_queue_update and
\* the sync engine on one DA layer.  A height is announced when the batcher
\* receives it; a batch submitted while the batcher handles height k is part
\* of block k + 1; the sync engine reads a block once it has been announced.

\* The operations of block h: the batches submit_operations accepted while
\* the batcher handled height h - 1, in the order they were submitted.
RECURSIVE DaOperationsUpTo(_, _)
DaOperationsUpTo(h, k) ==
    IF k = 0
    THEN <<>>
    ELSE DaOperationsUpTo(h, k - 1)
            \o (IF submits[k].ok /\ submits[k].height + 1 = h
                THEN submits[k].batch
                ELSE <<>>)

DaOperations(h) == DaOperationsUpTo(h, Len(submits))

\* The DA calls and the height subscription of the sync engine succeed, and
\* the heights arrive in sequence.
DaSucceeds == err' \notin {"da", "submit", "recv", "not_sequential"}

liveFrame == <<nodeVars, replayVars, keyVars, lockVars>>

\* main_loop receives the height announced last.
LiveMainLoop ==
    /\ batcher_height >= 1
    /\ MainLoop
    /\ DaSucceeds
    /\ end_height' = batcher_height
    /\ TrackBuffer /\ UNCHANGED liveFrame

\* The live loop receives current_height once it has been announced.
LiveLiveLoop ==
    /\ current_height <= batcher_height
    /\ LiveLoop
    /\ DaSucceeds
    /\ TrackBuffer /\ UNCHANGED liveFrame

\* The finalized epochs another prover following the same DA layer may have
\* posted at a height: for the epoch this node is at or the one before, from
\* the commitment this node holds, to any commitment.
LiveEpochChoices ==
    {None} \cup
    {Some(e) : e \in {d \in DAEpochs : /\ d.height <= db_epoch
                                       /\ d.height + 1 >= db_epoch
                                       /\ d.prev_commitment = Commitment(tree)}}

\* get_operations returns the operations of the block; get_finalized_epoch
\* returns the epoch a prover has posted there, if any.
LiveProcessDaHeight ==
    /\ ProcessDaHeight
    /\ DaSucceeds
    /\ operations' = DaOperations(height)
    /\ epoch_result' \in LiveEpochChoices
    /\ TrackBuffer /\ UNCHANGED liveFrame

\* Prover and batcher enabled, every task spawned, nothing synced yet.
InitLive ==
    /\ InitBatcher
    /\ cfg.batcher
    /\ tree = EmptyTree

\* Prover::run returns when the sync task has failed, and the process with
\* it: the batcher and the web server take no step after that.
NodeUp == pc # "fatal"

\* The requests of the live node come one at a time, and only the accepted
\* ones are followed.
LiveCallers == {"c1"}

\* The requests accepted in a run of the live node.
MaxLiveOps == 1

\* The sync engine meets the batcher and the requests only in DA blocks that
\* are sealed and in the tree a request reads before it is accepted: its
\* steps commute with theirs, and are taken while they are at rest.
Quiet == batcher_pc = "recv" /\ \A c \in Callers : caller[c].pc = "idle"

NextLive ==
    \/ NodeUp /\ BatcherRecv /\ batcher_pc' = "lock"
    \/ NodeUp /\ BatcherLock
    \/ NodeUp /\ BatcherTake
    \/ NodeUp /\ BatcherSubmit /\ submits'[Len(submits')].ok
    \/ \E c \in LiveCallers :
          /\ NodeUp
          /\ Len(pushed) + Cardinality(InFlight) < MaxLiveOps
          /\ CallValidate(c)
          /\ caller' # caller
    \/ \E c \in LiveCallers : NodeUp /\ CallLock(c)
    \/ \E c \in LiveCallers : NodeUp /\ CallPush(c)
    \/ Quiet /\ LiveMainLoop
    \/ Quiet /\ SyncLoopStart /\ TrackBuffer /\ UNCHANGED liveFrame
    \/ Quiet /\ HistoricalLoop /\ TrackBuffer /\ UNCHANGED liveFrame
    \/ Quiet /\ LiveLiveLoop
    \/ Quiet /\ LiveProcessDaHeight
    \/ Quiet /\ ProcessEpoch /\ TrackBuffer /\ UNCHANGED liveFrame
    \/ Quiet /\ ProcessEpochSetCommitment /\ TrackBuffer /\ UNCHANGED liveFrame
    \/ Quiet /\ ProcessEpochSetEpoch /\ TrackBuffer /\ UNCHANGED liveFrame
    \/ Quiet /\ MaybeFinalize /\ TrackBuffer /\ UNCHANGED liveFrame
    \/ Quiet /\ FinalizeNewEpoch /\ TrackBuffer /\ UNCHANGED liveFrame
    \/ Quiet /\ ProveEpoch /\ TrackBuffer /\ UNCHANGED liveFrame
    \/ Quiet /\ SubmitFinalizedEpoch /\ DaSucceeds /\ TrackBuffer /\ UNCHANGED liveFrame
    \/ Quiet /\ FinalizeSetCommitment /\ TrackBuffer /\ UNCHANGED liveFrame
    \/ Quiet /\ FinalizeSetEpoch /\ TrackBuffer /\ UNCHANGED liveFrame
    \/ Quiet /\ ExtendBuffer /\ TrackBuffer /\ UNCHANGED liveFrame
    \/ Quiet /\ HistoricalTail /\ TrackBuffer /\ UNCHANGED liveFrame
    \/ Quiet /\ LiveTail /\ TrackBuffer /\ UNCHANGED liveFrame

SpecLive == InitLive /\ [][NextLive]_allVars


\* The steps of the three kinds of task of the live node.
BatcherStep ==
    \/ NodeUp /\ BatcherRecv /\ batcher_pc' = "lock"
    \/ NodeUp /\ BatcherLock
    \/ NodeUp /\ BatcherTake
    \/ NodeUp /\ BatcherSubmit /\ submits'[Len(submits')].ok

RequestStep ==
    \E c \in LiveCallers : NodeUp /\ (CallLock(c) \/ CallPush(c))

SyncStep ==
    /\ NextLive
    /\ vars' # vars

\* The runtime schedules every task that can run; a request that has passed
\* its checks goes on to its push; the DA layer goes on announcing heights.
SpecLiveFair ==
    /\ SpecLive
    /\ WF_allVars(BatcherStep)
    /\ WF_allVars(RequestStep)
    /\ WF_allVars(SyncStep)

\* The operations submit_operations has accepted, in order.
SubmittedOps ==
    Flatten([i \in 1..Len(submits) |->
                IF submits[i].ok THEN submits[i].batch ELSE <<>>])

\* process_da_height for a live height is over: it has returned, or the sync
\* task has failed in it or in the write that follows it.
LiveCallOver ==
    /\ pc \in {"after_height", "fatal"}
    /\ processed # <<>>
    /\ Last(processed).live

\* During the call a signed epoch over the buffer the call began with was
\* submitted to DA.
EpochSubmittedForBuffer ==
    /\ Len(da_epochs) = pre.submitted + 1
    /\ LET e == Last(da_epochs)
           r == ExecuteBlock(pre.tree, pre.buf)
       IN  /\ e.signature # None
           /\ e.height = pre.epoch
           /\ e.prev_commitment = Commitment(pre.tree)
           /\ e.current_commitment = Commitment(r.tree)
           /\ e.proof.proofs = r.proofs

FoundEpochProcessed ==
    /\ Len(da_epochs) = pre.submitted
    /\ \/ err \in ConsensusErrors \cup {"db"}
       \/ /\ err = "none"
          /\ db_epoch = pre.epoch + 1
          /\ tree = ExecuteBlock(pre.tree, pre.buf).tree

\* No epoch was submitted because proving or verifying failed.
ProvingFailed ==
    /\ Len(da_epochs) = pre.submitted
    /\ err \in {"prove", "verify"}

Readers == {"get_commitment", "get_hashchain"}

\* The write guard kept after process_operation has returned.
KeepWrite(holder) == holder

\* process_operation returns: `tree`, the write guard, goes out of scope.
ReleaseWrite(holder) == "free"

\* self.tree.read().await is granted: nobody holds the write guard.
CanRead == tree_lock.writer = "free"

\* self.tree.write().await is granted: nobody holds any guard.
CanWrite == tree_lock.writer = "free" /\ tree_lock.readers = {}

\* What the finalizer is busy with outside the tree: the zkVM prover, the DA
\* submission, the database writes.
Busy ==
    IF pc = "prove_epoch" THEN "prove"
    ELSE IF pc = "fin_tail" THEN FinalizeTail[step]
    ELSE "tree"

\* What the steps of finalize_new_epoch on the tree leave alone.
lockRest ==
    <<cfg, dbVars, da_epochs, err, loopVars, buffered_operations, callVars,
      epoch_height, all_ops, finalized_epoch, new_epoch, step, histVars,
      buffered_from, nodeVars, replayVars, keyVars, read_during>>

\* get_commitment: let tree = self.tree.read().await
PrevCommitmentRead ==
    /\ pc = "finalize_new_epoch"
    /\ CanRead
    /\ tree_lock' = [tree_lock EXCEPT !.readers = @ \cup {"sync"}]
    /\ pc' = "get_prev_commitment"
    /\ UNCHANGED <<lockRest, tree, prev_commitment, proofs, new_commitment, exec_rest>>

\* get_commitment returns and drops its guard; execute_block starts.
PrevCommitment ==
    /\ pc = "get_prev_commitment"
    /\ prev_commitment' = Commitment(tree)
    /\ tree_lock' = [tree_lock EXCEPT !.readers = @ \ {"sync"}]
    /\ exec_rest' = all_ops
    /\ proofs' = <<>>
    /\ pc' = "execute_block"
    /\ UNCHANGED <<lockRest, tree, new_commitment>>

\* execute_block, the head of its loop, and process_operation:
\* let mut tree = self.tree.write().await
ProcessOperationWrite ==
    /\ pc = "execute_block"
    /\ exec_rest # <<>>
    /\ CanWrite
    /\ tree_lock' = [tree_lock EXCEPT !.writer = "sync"]
    /\ pc' = "process_operation"
    /\ UNCHANGED <<lockRest, tree, prev_commitment, proofs, new_commitment, exec_rest>>

\* process_operation: tree.process_operation(operation) under the guard,
\* which is dropped on return; execute_block keeps the proof of a success.
ProcessOperation ==
    /\ pc = "process_operation"
    /\ LET r == TreeProcessOperation(tree, Head(exec_rest))
       IN  /\ tree' = r.tree
           /\ proofs' = IF r.ok THEN Append(proofs, r.proof) ELSE proofs
    /\ exec_rest' = Tail(exec_rest)
    /\ tree_lock' = [tree_lock EXCEPT !.writer = ReleaseWrite(@)]
    /\ pc' = "execute_block"
    /\ UNCHANGED <<lockRest, prev_commitment, new_commitment>>

\* execute_block has returned; get_commitment: self.tree.read().await
NewCommitmentRead ==
    /\ pc = "execute_block"
    /\ exec_rest = <<>>
    /\ CanRead
    /\ tree_lock' = [tree_lock EXCEPT !.readers = @ \cup {"sync"}]
    /\ pc' = "get_new_commitment"
    /\ UNCHANGED <<lockRest, tree, prev_commitment, proofs, new_commitment, exec_rest>>

\* get_commitment returns and drops its guard; prove_epoch is next.
NewCommitment ==
    /\ pc = "get_new_commitment"
    /\ new_commitment' = Commitment(tree)
    /\ tree_lock' = [tree_lock EXCEPT !.readers = @ \ {"sync"}]
    /\ pc' = "prove_epoch"
    /\ UNCHANGED <<lockRest, tree, prev_commitment, proofs, exec_rest>>

\* A reader outside the sync task: self.tree.read().await is granted.
ReaderAcquire(r) ==
    /\ r \notin tree_lock.readers
    /\ CanRead
    /\ tree_lock' = [tree_lock EXCEPT !.readers = @ \cup {r}]
    /\ read_during' = IF Busy = "tree" THEN read_during ELSE read_during \cup {Busy}
    /\ UNCHANGED <<vars, buffered_from, nodeVars, replayVars, keyVars, exec_rest>>

\* The reader returns and drops its guard.
ReaderRelease(r) ==
    /\ r \in tree_lock.readers
    /\ tree_lock' = [tree_lock EXCEPT !.readers = @ \ {r}]
    /\ UNCHANGED <<vars, buffered_from, nodeVars, replayVars, keyVars, exec_rest,
                   read_during>>

\* A live height of a prover whose buffer holds the operations read at the
\* historical height before it: process_da_height has just drained the
\* buffer for finalize_new_epoch.
InitLock ==
    /\ cfg \in [prover : {TRUE}, start_height : {DefaultStartHeight}]
    /\ db_epoch = 0
    /\ db_last_synced = Some(1)
    /\ db_commitments = SetCommitment(NoCommitments, 0, Commitment(EmptyTree))
    /\ tree = EmptyTree
    /\ da_epochs = <<>>
    /\ pc = "finalize_new_epoch"
    /\ err = "none"
    /\ start_height = 1
    /\ end_height = 1
    /\ current_height = 2
    /\ buffered_operations = <<>>
    /\ height = 2
    /\ is_real_time = TRUE
    /\ current_epoch = 0
    /\ operations \in OpsChoices(1)
    /\ epoch_result = None
    /\ epoch_height = 0
    /\ all_ops \in OpsChoices(MaxBuffered) \ {<<>>}
    /\ prev_commitment = 0
    /\ proofs = <<>>
    /\ new_commitment = 0
    /\ new_epoch = 0
    /\ finalized_epoch = None
    /\ step = 0
    /\ received = <<2>>
    /\ processed = <<[h |-> 1, live |-> FALSE], [h |-> 2, live |-> TRUE]>>
    /\ completed = Some(1)
    /\ pre = [epoch |-> 0, commitments |-> db_commitments, tree |-> EmptyTree,
              buf |-> all_ops, submitted |-> 0]
    /\ fin_tree0 = EmptyTree
    /\ buffered_from = <<>>
    /\ NodeIdle
    /\ ReplayIdle
    /\ KeysIdle
    /\ LockIdle

NextLock ==
    \/ PrevCommitmentRead
    \/ PrevCommitment
    \/ ProcessOperationWrite
    \/ ProcessOperation
    \/ NewCommitmentRead
    \/ NewCommitment
    \/ ProveEpoch /\ TrackBuffer /\ UNCHANGED syncFrame
    \/ SubmitFinalizedEpoch /\ TrackBuffer /\ UNCHANGED syncFrame
    \/ FinalizeSetCommitment /\ TrackBuffer /\ UNCHANGED syncFrame
    \/ FinalizeSetEpoch /\ TrackBuffer /\ UNCHANGED syncFrame
    \/ \E r \in Readers : ReaderAcquire(r)
    \/ \E r \in Readers : ReaderRelease(r)

SpecLock == InitLock /\ [][NextLock]_allVars


\* The steps of finalize_new_epoch on the tree compute what the one-step
\* finalizer of the sync engine computes.
LockStepsRefineFinalizer ==
    pc = "prove_epoch"
        => /\ prev_commitment = Commitment(fin_tree0)
           /\ tree = ExecuteBlock(fin_tree0, all_ops).tree
           /\ proofs = ExecuteBlock(fin_tree0, all_ops).proofs
           /\ new_commitment = Commitment(tree)

\* C21: the write guard of the tree is held only inside one process_operation
\* call and guards exactly one operation; while the finalizer proves, submits
\* to DA or writes to the database the sync task holds no guard of the tree,
\* and a reader that asks for the tree then is granted its guard.
C21_WriteLockPerOperation ==
    /\ [](/\ tree_lock.writer # "free"
             => /\ pc = "process_operation"
                /\ tree_lock.readers = {}
          /\ Busy # "tree"
             => /\ tree_lock.writer = "free"
                /\ "sync" \notin tree_lock.readers
                /\ \A r \in Readers \ tree_lock.readers : ENABLED ReaderAcquire(r))
    /\ [][/\ tree' # tree => tree_lock.writer = "sync"
          /\ tree_lock.writer = "sync" /\ pc' # pc
                => /\ tree_lock'.writer = "free"
                   /\ Len(exec_rest') + 1 = Len(exec_rest)
                   /\ tree' = TreeProcessOperation(tree, Head(exec_rest)).tree]_allVars

\* Both readers took their guard while the prover ran and again while the
\* epoch was being submitted, in a finalization of two operations.
C21_Witness ==
    /\ {"prove", "submit"} \subseteq read_during
    /\ Len(da_epochs) = 1
    /\ Len(pre.buf) = 2
    /\ tree_lock.readers = Readers


\* ============================================================ epoch chain
\* One run from a fresh database on a DA layer whose first height is 0:
\* main_loop has received height 0 and persisted the configured start
\* height 0, so that three live heights follow the historical one.
InitChain ==
    /\ cfg \in [prover : BOOLEAN, start_height : {0}]
    /\ db_epoch = 0
    /\ db_last_synced = Some(0)
    /\ db_commitments = NoCommitments
    /\ tree = EmptyTree
    /\ da_epochs = <<>>
    /\ pc = "sync_loop"
    /\ err = "none"
    /\ start_height = 0
    /\ end_height = 0
    /\ current_height = 0
    /\ buffered_operations = <<>>
    /\ height = 0
    /\ is_real_time = FALSE
    /\ current_epoch = 0
    /\ operations = <<>>
    /\ epoch_result = None
    /\ epoch_height = 0
    /\ all_ops = <<>>
    /\ prev_commitment = 0
    /\ proofs = <<>>
    /\ new_commitment = 0
    /\ new_epoch = 0
    /\ finalized_epoch = None
    /\ step = 0
    /\ received = <<>>
    /\ processed = <<>>
    /\ completed = None
    /\ pre = [epoch |-> 0, commitments |-> NoCommitments, tree |-> EmptyTree,
              buf |-> <<>>, submitted |-> 0]
    /\ fin_tree0 = EmptyTree
    /\ buffered_from = <<>>
    /\ NodeIdle
    /\ ReplayIdle
    /\ KeysIdle
    /\ LockIdle

NextChain ==
    \/ SyncLoopStart /\ TrackBuffer /\ UNCHANGED syncFrame
    \/ HistoricalLoop /\ TrackBuffer /\ UNCHANGED syncFrame
    \/ LiveLoop /\ TrackBuffer /\ UNCHANGED syncFrame
    \/ ProcessDaHeight /\ TrackBuffer /\ UNCHANGED syncFrame
    \/ ProcessEpoch /\ TrackBuffer /\ UNCHANGED syncFrame
    \/ ProcessEpochSetCommitment /\ TrackBuffer /\ UNCHANGED syncFrame
    \/ ProcessEpochSetEpoch /\ TrackBuffer /\ UNCHANGED syncFrame
    \/ MaybeFinalize /\ TrackBuffer /\ UNCHANGED syncFrame
    \/ FinalizeNewEpoch /\ TrackBuffer /\ UNCHANGED syncFrame
    \/ ProveEpoch /\ TrackBuffer /\ UNCHANGED syncFrame
    \/ SubmitFinalizedEpoch /\ TrackBuffer /\ UNCHANGED syncFrame
    \/ FinalizeSetCommitment /\ TrackBuffer /\ UNCHANGED syncFrame
    \/ FinalizeSetEpoch /\ TrackBuffer /\ UNCHANGED syncFrame
    \/ ExtendBuffer /\ TrackBuffer /\ UNCHANGED syncFrame
    \/ HistoricalTail /\ TrackBuffer /\ UNCHANGED syncFrame
    \/ LiveTail /\ TrackBuffer /\ UNCHANGED syncFrame

SpecChain == InitChain /\ [][NextChain]_allVars

\* At the start of a per-height step the tree stands at the persisted epoch.
TreeAtPersistedEpoch ==
    pc = "process_da_height"
        => /\ db_epoch \in DOMAIN db_commitments
           /\ Commitment(tree) = db_commitments[db_epoch]

\* A published epoch starts from the commitment persisted for its height, and
\* once the epoch counter has passed it, ends at the one persisted for the
\* next height.
PublishedFromPersisted ==
    \A i \in 1..Len(da_epochs) :
        LET e == da_epochs[i]
        IN  /\ e.height \in DOMAIN db_commitments
            /\ e.prev_commitment = db_commitments[e.height]
            /\ e.height < db_epoch
                 => /\ e.height + 1 \in DOMAIN db_commitments
                    /\ e.current_commitment = db_commitments[e.height + 1]

\* C22 as stated: the tree stands at the persisted epoch at the start of
\* every per-height step, every published epoch starts from the persisted
\* commitment of its height, and each published epoch is followed by one of
\* the next height that starts from its resulting commitment.
C22_Original ==
    /\ TreeAtPersistedEpoch
    /\ PublishedFromPersisted
    /\ \A i \in 1..(Len(da_epochs) - 1) :
          /\ da_epochs[i + 1].height = da_epochs[i].height + 1
          /\ da_epochs[i + 1].prev_commitment = da_epochs[i].current_commitment

\* C22, amended: the same, but of two epochs published one after the other
\* the later one has a greater height, and the two chain when the height is
\* exactly one greater, that is when no epoch found on DA was applied between
\* them.
C22_Amended ==
    /\ TreeAtPersistedEpoch
    /\ PublishedFromPersisted
    /\ \A i \in 1..(Len(da_epochs) - 1) :
          /\ da_epochs[i + 1].height > da_epochs[i].height
          /\ da_epochs[i + 1].height = da_epochs[i].height + 1
                => da_epochs[i + 1].prev_commitment = da_epochs[i].current_commitment

\* Two epochs published at consecutive heights, each changing the tree, at
\* the start of the next per-height step.
C22_Witness ==
    /\ pc = "process_da_height"
    /\ Len(da_epochs) = 2
    /\ da_epochs[2].height = da_epochs[1].height + 1
    /\ da_epochs[1].prev_commitment # da_epochs[1].current_commitment
    /\ da_epochs[2].prev_commitment # da_epochs[2].current_commitment

====
